---- MODULE Spec2Model ----
(***************************************************************************)
(* The three vending-machine automata of vending_machine_comparison.py     *)
(* (OriginalDFA, TwoLineDFA, NFASimulator) as runtime instances that hold  *)
(* a current position and a history, driven by transition and reset calls. *)
(***************************************************************************)
EXTENDS Integers, Sequences, FiniteSets, TLC

(* ---------------------------------------------------------------------- *)
(* Bounds of the model                                                     *)
(* ---------------------------------------------------------------------- *)
\* longest history an instance is driven to before only reset() is called
MaxHistory == 5
\* number of successive _epsilon_closure applications on a drawn seed set
MaxClosureCalls == 2
\* largest seed set the step-by-step _epsilon_closure run is started on
MaxSeed == 3

\* longest history of each of two instances that are driven side by side
MaxPairHistory == 2

\* largest number of epsilon edges of a table drawn for _epsilon_closure
MaxEdges == 3

\* most money symbols applied in a row in a walk over the single-path table
MaxRun == 11

\* Python's None
None == "None"

VARIABLES machines, last, ec_seed, ec_states, ec_prev, ec_calls,
          wl_eps, wl_seed, wl_closure, wl_stack, wl_popped, wl_pushed, wl_pc,
          run

\* machines[i] : the attributes of runtime instance i (cls, current_state,
\*               current_states, history); cls = None before construction
\* last[i]     : the most recent call on instance i and what it returned
\* ec_seed     : the set of states a chain of _epsilon_closure calls starts from
\* ec_states   : the value the most recent _epsilon_closure call returned
\* ec_prev     : the argument of the most recent _epsilon_closure call
\* ec_calls    : how many _epsilon_closure calls have been made on the seed
\* wl_eps      : the epsilon edges a step-by-step _epsilon_closure run reads
\* wl_seed     : the argument "states" of that run
\* wl_closure  : its local "closure"
\* wl_stack    : its local "stack"
\* wl_popped   : the states the run has popped so far, in order
\* wl_pushed   : the states the run has pushed with stack.append, in order
\* wl_pc       : "loop" inside the while loop, "done" after the return,
\*               "idle" when no such run is modelled
\* run         : a walk over the single-path table without a log: the
\*               table's owner (cls), the state reached (current_state), the
\*               number of money symbols applied in a row (money) and the
\*               latest step (op, old, symbol, dispensed)
vars == <<machines, last, ec_seed, ec_states, ec_prev, ec_calls,
          wl_eps, wl_seed, wl_closure, wl_stack, wl_popped, wl_pushed, wl_pc,
          run>>
worklistVars == <<wl_eps, wl_seed, wl_closure, wl_stack, wl_popped, wl_pushed, wl_pc>>
engineVars == <<machines, last>>
closureVars == <<ec_seed, ec_states, ec_prev, ec_calls>>
runVars == <<run>>

\* dict.get(key, default) on a table row
Get(row, key, default) == IF key \in DOMAIN row THEN row[key] ELSE default

(* ---------------------------------------------------------------------- *)
(* 1. ORIGINAL DFA (single path)                                           *)
(* ---------------------------------------------------------------------- *)
OriginalDFA_STATES == {"Q0", "Q1", "Q2", "Q3", "Q4", "Q5", "Q6", "Q7", "Q8", "Q9", "Q10"}
OriginalDFA_SIGMA == {"RM5", "RM10", "RM20", "e", "v"}
OriginalDFA_INITIAL == "Q0"
OriginalDFA_ACCEPTING == {"Q7", "Q8", "Q9", "Q10"}

OriginalDFA_DELTA ==
     ("Q0"  :> [RM5 |-> "Q1",  RM10 |-> "Q2",  RM20 |-> "Q4",  e |-> "Q0", v |-> "Q0"])
  @@ ("Q1"  :> [RM5 |-> "Q2",  RM10 |-> "Q3",  RM20 |-> "Q5",  e |-> "Q1", v |-> "Q1"])
  @@ ("Q2"  :> [RM5 |-> "Q3",  RM10 |-> "Q4",  RM20 |-> "Q6",  e |-> "Q2", v |-> "Q2"])
  @@ ("Q3"  :> [RM5 |-> "Q4",  RM10 |-> "Q5",  RM20 |-> "Q7",  e |-> "Q3", v |-> "Q3"])
  @@ ("Q4"  :> [RM5 |-> "Q5",  RM10 |-> "Q6",  RM20 |-> "Q8",  e |-> "Q4", v |-> "Q4"])
  @@ ("Q5"  :> [RM5 |-> "Q6",  RM10 |-> "Q7",  RM20 |-> "Q9",  e |-> "Q5", v |-> "Q5"])
  @@ ("Q6"  :> [RM5 |-> "Q7",  RM10 |-> "Q8",  RM20 |-> "Q10", e |-> "Q6", v |-> "Q6"])
  @@ ("Q7"  :> [RM5 |-> "Q8",  RM10 |-> "Q9",  RM20 |-> "Q10", e |-> "Q0", v |-> "Q7"])
  @@ ("Q8"  :> [RM5 |-> "Q9",  RM10 |-> "Q10", RM20 |-> "Q10", e |-> "Q0", v |-> "Q8"])
  @@ ("Q9"  :> [RM5 |-> "Q10", RM10 |-> "Q10", RM20 |-> "Q10", e |-> "Q0", v |-> "Q9"])
  @@ ("Q10" :> [RM5 |-> "Q10", RM10 |-> "Q10", RM20 |-> "Q10", e |-> "Q0", v |-> "Q0"])

\* balance column of STATE_INFO (the label column is display only)
OriginalDFA_STATE_INFO ==
     ("Q0" :> 0)  @@ ("Q1" :> 5)  @@ ("Q2" :> 10) @@ ("Q3" :> 15)
  @@ ("Q4" :> 20) @@ ("Q5" :> 25) @@ ("Q6" :> 30) @@ ("Q7" :> 35)
  @@ ("Q8" :> 40) @@ ("Q9" :> 45) @@ ("Q10" :> 50)

\* lookup in a table whose Q3 row sends RM20 one state short
OriginalDFA_lookup_short_row(old, symbol) ==
  IF old = "Q3" /\ symbol = "RM20" THEN "Q6"
  ELSE Get(Get(OriginalDFA_DELTA, old, <<>>), symbol, old)

\* lookup in a table whose accepting rows all send v back to Q0
OriginalDFA_lookup_loose_v(old, symbol) ==
  IF old \in OriginalDFA_ACCEPTING /\ symbol = "v" THEN "Q0"
  ELSE Get(Get(OriginalDFA_DELTA, old, <<>>), symbol, old)

\* lookup in a table whose Q10 row returns to Q0 on money
OriginalDFA_lookup_overflow_restarts(old, symbol) ==
  IF old = "Q10" /\ symbol \in {"RM5", "RM10", "RM20"} THEN "Q0"
  ELSE Get(Get(OriginalDFA_DELTA, old, <<>>), symbol, old)

\* new = self.DELTA.get(old, {}).get(symbol, old)
OriginalDFA_lookup(old, symbol) ==
  Get(Get(OriginalDFA_DELTA, old, <<>>), symbol, old)

\* dispense rule that names the product without looking at the symbol
OriginalDFA_dispensed_any_symbol(old, new, symbol) ==
  IF old \in OriginalDFA_ACCEPTING /\ new = "Q0" THEN "Eye Drop" ELSE None

\* the dispense rule of OriginalDFA.transition
OriginalDFA_dispensed(old, new, symbol) ==
  IF old \in OriginalDFA_ACCEPTING /\ new = "Q0"
    THEN IF symbol = "e" THEN "Eye Drop"
         ELSE IF symbol = "v" THEN "Vitamin" ELSE None
    ELSE None

\* OriginalDFA.__init__
OriginalDFA_init ==
  [cls |-> "OriginalDFA", current_state |-> OriginalDFA_INITIAL,
   current_states |-> {}, history |-> <<>>]

\* transition that logs nothing when the state does not change
OriginalDFA_transition_skips_self_loops(i, symbol) ==
  /\ machines[i].cls = "OriginalDFA"
  /\ LET old == machines[i].current_state
         new == OriginalDFA_lookup(old, symbol)
         dispensed == OriginalDFA_dispensed(old, new, symbol)
     IN /\ machines' = [machines EXCEPT
                          ![i].current_state = new,
                          ![i].history = IF new = old THEN @
                                         ELSE Append(@, <<old, symbol, new>>)]
        /\ last' = [last EXCEPT ![i] =
                      [op |-> "transition", symbol |-> symbol,
                       old |-> old, new |-> new, dispensed |-> dispensed]]
  /\ UNCHANGED <<closureVars, worklistVars, runVars>>

\* OriginalDFA.transition(symbol) on instance i
OriginalDFA_transition(i, symbol) ==
  /\ machines[i].cls = "OriginalDFA"
  /\ LET old == machines[i].current_state
         new == OriginalDFA_lookup(old, symbol)
         dispensed == OriginalDFA_dispensed(old, new, symbol)
     IN /\ machines' = [machines EXCEPT
                          ![i].current_state = new,
                          ![i].history = Append(@, <<old, symbol, new>>)]
        /\ last' = [last EXCEPT ![i] =
                      [op |-> "transition", symbol |-> symbol,
                       old |-> old, new |-> new, dispensed |-> dispensed]]
  /\ UNCHANGED <<closureVars, worklistVars, runVars>>

\* reset() that clears the history but leaves the current state where it is
OriginalDFA_reset_keeps_state(i) ==
  /\ machines[i].cls = "OriginalDFA"
  /\ machines' = [machines EXCEPT ![i].history = <<>>]
  /\ last' = [last EXCEPT ![i] = [op |-> "reset"]]
  /\ UNCHANGED <<closureVars, worklistVars, runVars>>

\* OriginalDFA.reset()
OriginalDFA_reset(i) ==
  /\ machines[i].cls = "OriginalDFA"
  /\ machines' = [machines EXCEPT
                    ![i].current_state = OriginalDFA_INITIAL,
                    ![i].history = <<>>]
  /\ last' = [last EXCEPT ![i] = [op |-> "reset"]]
  /\ UNCHANGED <<closureVars, worklistVars, runVars>>

OriginalDFA_get_balance(self) == Get(OriginalDFA_STATE_INFO, self.current_state, 0)
OriginalDFA_is_accepting(self) == self.current_state \in OriginalDFA_ACCEPTING
OriginalDFA_can_buy_eye_drop(self) == self.current_state \in OriginalDFA_ACCEPTING
\* can_buy_vitamin that tests the accepting set as can_buy_eye_drop does
OriginalDFA_can_buy_vitamin_any_accepting(self) == self.current_state \in OriginalDFA_ACCEPTING
OriginalDFA_can_buy_vitamin(self) == self.current_state = "Q10"

(* ---------------------------------------------------------------------- *)
(* 2. TWO-LINE DFA (parallel product paths)                                *)
(* ---------------------------------------------------------------------- *)
\* a STATES list that leaves out the last state of the vitamin line
TwoLineDFA_STATES_without_V10 ==
  {"S0", "E1", "E2", "E3", "E4", "E5", "E6", "E7",
   "V1", "V2", "V3", "V4", "V5", "V6", "V7", "V8", "V9"}

TwoLineDFA_STATES == {"S0", "E1", "E2", "E3", "E4", "E5", "E6", "E7",
                      "V1", "V2", "V3", "V4", "V5", "V6", "V7", "V8", "V9", "V10"}
TwoLineDFA_SIGMA == {"RM5", "RM10", "RM20", "e", "v", "select_e", "select_v"}
TwoLineDFA_INITIAL == "S0"
TwoLineDFA_ACCEPTING_EYE == {"E7"}
TwoLineDFA_ACCEPTING_VIT == {"V10"}
TwoLineDFA_ACCEPTING == TwoLineDFA_ACCEPTING_EYE \cup TwoLineDFA_ACCEPTING_VIT

TwoLineDFA_DELTA ==
     ("S0" :> [select_e |-> "E1", select_v |-> "V1", RM5 |-> "S0", RM10 |-> "S0", RM20 |-> "S0", e |-> "S0", v |-> "S0"])
  @@ ("E1" :> [RM5 |-> "E2", RM10 |-> "E3", RM20 |-> "E5", e |-> "E1", v |-> "E1", select_e |-> "E1", select_v |-> "V1"])
  @@ ("E2" :> [RM5 |-> "E3", RM10 |-> "E4", RM20 |-> "E6", e |-> "E2", v |-> "E2", select_e |-> "E2", select_v |-> "V2"])
  @@ ("E3" :> [RM5 |-> "E4", RM10 |-> "E5", RM20 |-> "E7", e |-> "E3", v |-> "E3", select_e |-> "E3", select_v |-> "V3"])
  @@ ("E4" :> [RM5 |-> "E5", RM10 |-> "E6", RM20 |-> "E7", e |-> "E4", v |-> "E4", select_e |-> "E4", select_v |-> "V4"])
  @@ ("E5" :> [RM5 |-> "E6", RM10 |-> "E7", RM20 |-> "E7", e |-> "E5", v |-> "E5", select_e |-> "E5", select_v |-> "V5"])
  @@ ("E6" :> [RM5 |-> "E7", RM10 |-> "E7", RM20 |-> "E7", e |-> "E6", v |-> "E6", select_e |-> "E6", select_v |-> "V6"])
  @@ ("E7" :> [RM5 |-> "E7", RM10 |-> "E7", RM20 |-> "E7", e |-> "S0", v |-> "E7", select_e |-> "E7", select_v |-> "V7"])
  @@ ("V1" :> [RM5 |-> "V2",  RM10 |-> "V3",  RM20 |-> "V5",  e |-> "V1",  v |-> "V1", select_e |-> "E1", select_v |-> "V1"])
  @@ ("V2" :> [RM5 |-> "V3",  RM10 |-> "V4",  RM20 |-> "V6",  e |-> "V2",  v |-> "V2", select_e |-> "E2", select_v |-> "V2"])
  @@ ("V3" :> [RM5 |-> "V4",  RM10 |-> "V5",  RM20 |-> "V7",  e |-> "V3",  v |-> "V3", select_e |-> "E3", select_v |-> "V3"])
  @@ ("V4" :> [RM5 |-> "V5",  RM10 |-> "V6",  RM20 |-> "V8",  e |-> "V4",  v |-> "V4", select_e |-> "E4", select_v |-> "V4"])
  @@ ("V5" :> [RM5 |-> "V6",  RM10 |-> "V7",  RM20 |-> "V9",  e |-> "V5",  v |-> "V5", select_e |-> "E5", select_v |-> "V5"])
  @@ ("V6" :> [RM5 |-> "V7",  RM10 |-> "V8",  RM20 |-> "V10", e |-> "V6",  v |-> "V6", select_e |-> "E6", select_v |-> "V6"])
  @@ ("V7" :> [RM5 |-> "V8",  RM10 |-> "V9",  RM20 |-> "V10", e |-> "V7",  v |-> "V7", select_e |-> "E7", select_v |-> "V7"])
  @@ ("V8" :> [RM5 |-> "V9",  RM10 |-> "V10", RM20 |-> "V10", e |-> "V8",  v |-> "V8", select_e |-> "E7", select_v |-> "V8"])
  @@ ("V9" :> [RM5 |-> "V10", RM10 |-> "V10", RM20 |-> "V10", e |-> "V9",  v |-> "V9", select_e |-> "E7", select_v |-> "V9"])
  @@ ("V10" :> [RM5 |-> "V10", RM10 |-> "V10", RM20 |-> "V10", e |-> "V10", v |-> "S0", select_e |-> "E7", select_v |-> "V10"])

\* balance column of STATE_INFO
TwoLineDFA_STATE_INFO ==
     ("S0" :> 0)
  @@ ("E1" :> 5)  @@ ("E2" :> 10) @@ ("E3" :> 15) @@ ("E4" :> 20)
  @@ ("E5" :> 25) @@ ("E6" :> 30) @@ ("E7" :> 35)
  @@ ("V1" :> 5)  @@ ("V2" :> 10) @@ ("V3" :> 15) @@ ("V4" :> 20)
  @@ ("V5" :> 25) @@ ("V6" :> 30) @@ ("V7" :> 35) @@ ("V8" :> 40)
  @@ ("V9" :> 45) @@ ("V10" :> 50)

\* lookup in a table whose E rows send select_v to the start of the V line
TwoLineDFA_lookup_switch_restarts(old, symbol) ==
  IF old \in {"E1", "E2", "E3", "E4", "E5", "E6", "E7"} /\ symbol = "select_v" THEN "V1"
  ELSE Get(Get(TwoLineDFA_DELTA, old, <<>>), symbol, old)

\* lookup in a table whose E7 row sends v back to S0 as it sends e
TwoLineDFA_lookup_cross_product(old, symbol) ==
  IF old = "E7" /\ symbol = "v" THEN "S0"
  ELSE Get(Get(TwoLineDFA_DELTA, old, <<>>), symbol, old)

\* lookup in a table whose S0 row lets money start the eye-drop line
TwoLineDFA_lookup_money_before_selection(old, symbol) ==
  IF old = "S0" /\ symbol \in {"RM5", "RM10", "RM20"} THEN "E1"
  ELSE Get(Get(TwoLineDFA_DELTA, old, <<>>), symbol, old)

\* new = self.DELTA.get(old, {}).get(symbol, old)
TwoLineDFA_lookup(old, symbol) ==
  Get(Get(TwoLineDFA_DELTA, old, <<>>), symbol, old)

\* dispense rule that does not look at the state the transition left
TwoLineDFA_dispensed_unchecked_old(old, new, symbol) ==
  IF new = "S0" /\ symbol = "e" THEN "Eye Drop"
  ELSE IF new = "S0" /\ symbol = "v" THEN "Vitamin"
  ELSE None

\* the dispense rule of TwoLineDFA.transition
TwoLineDFA_dispensed(old, new, symbol) ==
  IF old \in TwoLineDFA_ACCEPTING_EYE /\ new = "S0" /\ symbol = "e"
    THEN "Eye Drop"
  ELSE IF old \in TwoLineDFA_ACCEPTING_VIT /\ new = "S0" /\ symbol = "v"
    THEN "Vitamin"
  ELSE None

\* TwoLineDFA.__init__
TwoLineDFA_init ==
  [cls |-> "TwoLineDFA", current_state |-> TwoLineDFA_INITIAL,
   current_states |-> {}, history |-> <<>>]

\* TwoLineDFA.transition(symbol) on instance i
TwoLineDFA_transition(i, symbol) ==
  /\ machines[i].cls = "TwoLineDFA"
  /\ LET old == machines[i].current_state
         new == TwoLineDFA_lookup(old, symbol)
         dispensed == TwoLineDFA_dispensed(old, new, symbol)
     IN /\ machines' = [machines EXCEPT
                          ![i].current_state = new,
                          ![i].history = Append(@, <<old, symbol, new>>)]
        /\ last' = [last EXCEPT ![i] =
                      [op |-> "transition", symbol |-> symbol,
                       old |-> old, new |-> new, dispensed |-> dispensed]]
  /\ UNCHANGED <<closureVars, worklistVars, runVars>>

\* reset() that returns to S0 but keeps the history
TwoLineDFA_reset_keeps_history(i) ==
  /\ machines[i].cls = "TwoLineDFA"
  /\ machines' = [machines EXCEPT ![i].current_state = TwoLineDFA_INITIAL]
  /\ last' = [last EXCEPT ![i] = [op |-> "reset"]]
  /\ UNCHANGED <<closureVars, worklistVars, runVars>>

\* TwoLineDFA.reset()
TwoLineDFA_reset(i) ==
  /\ machines[i].cls = "TwoLineDFA"
  /\ machines' = [machines EXCEPT
                    ![i].current_state = TwoLineDFA_INITIAL,
                    ![i].history = <<>>]
  /\ last' = [last EXCEPT ![i] = [op |-> "reset"]]
  /\ UNCHANGED <<closureVars, worklistVars, runVars>>

TwoLineDFA_get_balance(self) == Get(TwoLineDFA_STATE_INFO, self.current_state, 0)
\* is_accepting that tests the eye-drop accepting set only
TwoLineDFA_is_accepting_eye_only(self) == self.current_state \in TwoLineDFA_ACCEPTING_EYE
TwoLineDFA_is_accepting(self) == self.current_state \in TwoLineDFA_ACCEPTING
\* can_buy_eye_drop that looks at the balance, whatever the line
TwoLineDFA_can_buy_eye_drop_any_line(self) ==
  Get(TwoLineDFA_STATE_INFO, self.current_state, 0) >= 35
TwoLineDFA_can_buy_eye_drop(self) == self.current_state \in TwoLineDFA_ACCEPTING_EYE
TwoLineDFA_can_buy_vitamin(self) == self.current_state \in TwoLineDFA_ACCEPTING_VIT

(* ---------------------------------------------------------------------- *)
(* 3. NFA (set-valued position, epsilon transitions)                       *)
(* ---------------------------------------------------------------------- *)
NFASimulator_STATES == {"Q0", "Q1", "Q2", "Q3", "Q4", "Q5", "Q6", "Q7", "Q8", "Q9", "Q10",
                        "EYE_READY", "VIT_READY", "DISPENSE"}
NFASimulator_SIGMA == {"RM5", "RM10", "RM20", "dispense_e", "dispense_v"}
NFASimulator_INITIAL == "Q0"
NFASimulator_ACCEPTING == {"EYE_READY", "VIT_READY"}

NFASimulator_DELTA ==
     ("Q0"  :> [RM5 |-> {"Q1"},  RM10 |-> {"Q2"},  RM20 |-> {"Q4"},  eps |-> {}])
  @@ ("Q1"  :> [RM5 |-> {"Q2"},  RM10 |-> {"Q3"},  RM20 |-> {"Q5"},  eps |-> {}])
  @@ ("Q2"  :> [RM5 |-> {"Q3"},  RM10 |-> {"Q4"},  RM20 |-> {"Q6"},  eps |-> {}])
  @@ ("Q3"  :> [RM5 |-> {"Q4"},  RM10 |-> {"Q5"},  RM20 |-> {"Q7"},  eps |-> {}])
  @@ ("Q4"  :> [RM5 |-> {"Q5"},  RM10 |-> {"Q6"},  RM20 |-> {"Q8"},  eps |-> {}])
  @@ ("Q5"  :> [RM5 |-> {"Q6"},  RM10 |-> {"Q7"},  RM20 |-> {"Q9"},  eps |-> {}])
  @@ ("Q6"  :> [RM5 |-> {"Q7"},  RM10 |-> {"Q8"},  RM20 |-> {"Q10"}, eps |-> {}])
  @@ ("Q7"  :> [RM5 |-> {"Q8"},  RM10 |-> {"Q9"},  RM20 |-> {"Q10"}, eps |-> {"EYE_READY"}])
  @@ ("Q8"  :> [RM5 |-> {"Q9"},  RM10 |-> {"Q10"}, RM20 |-> {"Q10"}, eps |-> {"EYE_READY"}])
  @@ ("Q9"  :> [RM5 |-> {"Q10"}, RM10 |-> {"Q10"}, RM20 |-> {"Q10"}, eps |-> {"EYE_READY"}])
  @@ ("Q10" :> [RM5 |-> {"Q10"}, RM10 |-> {"Q10"}, RM20 |-> {"Q10"}, eps |-> {"EYE_READY", "VIT_READY"}])
  @@ ("EYE_READY" :> [dispense_e |-> {"DISPENSE"}, eps |-> {}])
  @@ ("VIT_READY" :> [dispense_v |-> {"DISPENSE"}, eps |-> {}])
  @@ ("DISPENSE"  :> [eps |-> {"Q0"}])

\* balance column of STATE_INFO
NFASimulator_STATE_INFO ==
     ("Q0" :> 0)  @@ ("Q1" :> 5)  @@ ("Q2" :> 10) @@ ("Q3" :> 15)
  @@ ("Q4" :> 20) @@ ("Q5" :> 25) @@ ("Q6" :> 30) @@ ("Q7" :> 35)
  @@ ("Q8" :> 40) @@ ("Q9" :> 45) @@ ("Q10" :> 50)
  @@ ("EYE_READY" :> 0) @@ ("VIT_READY" :> 0) @@ ("DISPENSE" :> 0)

\* self.DELTA.get(state, {}).get('eps', set())
NFASimulator_eps(state) ==
  Get(Get(NFASimulator_DELTA, state, <<>>), "eps", {})

\* list(states), and the order a for loop visits a set in: some enumeration
RECURSIVE ListOf(_)
ListOf(S) ==
  IF S = {} THEN <<>>
  ELSE LET x == CHOOSE y \in S : TRUE IN <<x>> \o ListOf(S \ {x})

\* the while loop of _epsilon_closure: pop the last element of the stack,
\* add and push every epsilon successor that is not in the closure yet
RECURSIVE NFASimulator_closure_loop(_, _)
NFASimulator_closure_loop(closure, stack) ==
  IF stack = <<>> THEN closure
  ELSE LET state == stack[Len(stack)]
           rest == SubSeq(stack, 1, Len(stack) - 1)
           fresh == NFASimulator_eps(state) \ closure
       IN NFASimulator_closure_loop(closure \cup fresh, rest \o ListOf(fresh))

\* closure = set(): the seed states are left out of the result
NFASimulator_closure_seed_empty(states) == {}

\* closure = set(states)
NFASimulator_closure_seed(states) == states

\* NFASimulator._epsilon_closure(states)
NFASimulator_epsilon_closure(states) ==
  NFASimulator_closure_loop(NFASimulator_closure_seed(states), ListOf(states))

\* NFASimulator.__init__ (with its _apply_epsilon_closure call)
NFASimulator_init ==
  [cls |-> "NFASimulator", current_state |-> None,
   current_states |-> NFASimulator_epsilon_closure({NFASimulator_INITIAL}),
   history |-> <<>>]

\* successors on a table whose ready states both answer either request
NFASimulator_successors_any_ready(states, symbol) ==
  UNION { Get(Get(NFASimulator_DELTA, state, <<>>), symbol, {}) : state \in states }
  \cup (IF /\ symbol \in {"dispense_e", "dispense_v"}
            /\ states \cap {"EYE_READY", "VIT_READY"} # {}
         THEN {"DISPENSE"} ELSE {})

\* the for loop of transition: union of DELTA[state][symbol] over the held
\* states, a state without an entry for the symbol contributing set()
NFASimulator_successors(states, symbol) ==
  UNION { Get(Get(NFASimulator_DELTA, state, <<>>), symbol, {}) : state \in states }

\* the move without the "if new_states:" test: an empty successor set
\* replaces the position too
NFASimulator_moved_always_replaces(states, symbol) ==
  NFASimulator_epsilon_closure(NFASimulator_successors(states, symbol))

\* the move without the epsilon closure of the successor set
NFASimulator_moved_unclosed(states, symbol) ==
  LET new_states == NFASimulator_successors(states, symbol)
  IN IF new_states # {} THEN new_states ELSE states

\* current_states after "if new_states: ..." and before the dispense check
NFASimulator_moved(states, symbol) ==
  LET new_states == NFASimulator_successors(states, symbol)
  IN IF new_states # {} THEN NFASimulator_epsilon_closure(new_states) ELSE states

\* a dispense check that names the eye drop whatever the symbol was
NFASimulator_dispensed_one_product(moved, symbol) ==
  IF "DISPENSE" \in moved THEN "Eye Drop" ELSE None

\* the dispense check of NFASimulator.transition
NFASimulator_dispensed(moved, symbol) ==
  IF "DISPENSE" \in moved
    THEN IF symbol = "dispense_e" THEN "Eye Drop"
         ELSE IF symbol = "dispense_v" THEN "Vitamin" ELSE None
    ELSE None

\* transition without the reset after a dispense
NFASimulator_after_no_reset(moved) == moved

\* current_states at the end of transition: reset after dispense
NFASimulator_after(moved) ==
  IF "DISPENSE" \in moved THEN NFASimulator_epsilon_closure({"Q0"}) ELSE moved

\* transition on a current_states that belongs to the class, not to the
\* instance: every NFASimulator instance sees the new position
NFASimulator_transition_shared_position(i, symbol) ==
  /\ machines[i].cls = "NFASimulator"
  /\ LET old_states == machines[i].current_states
         moved == NFASimulator_moved(old_states, symbol)
         dispensed == NFASimulator_dispensed(moved, symbol)
         new == NFASimulator_after(moved)
     IN /\ machines' = [j \in DOMAIN machines |->
                          IF j = i
                            THEN [machines[j] EXCEPT
                                    !.current_states = new,
                                    !.history = Append(@, <<old_states, symbol, new>>)]
                          ELSE IF machines[j].cls = "NFASimulator"
                            THEN [machines[j] EXCEPT !.current_states = new]
                          ELSE machines[j]]
        /\ last' = [last EXCEPT ![i] =
                      [op |-> "transition", symbol |-> symbol,
                       old |-> old_states, new |-> new, dispensed |-> dispensed]]
  /\ UNCHANGED <<closureVars, worklistVars, runVars>>

\* transition whose reset after a dispense empties the log as reset() does
NFASimulator_transition_dispense_clears_log(i, symbol) ==
  /\ machines[i].cls = "NFASimulator"
  /\ LET old_states == machines[i].current_states
         moved == NFASimulator_moved(old_states, symbol)
         dispensed == NFASimulator_dispensed(moved, symbol)
         new == NFASimulator_after(moved)
     IN /\ machines' = [machines EXCEPT
                          ![i].current_states = new,
                          ![i].history =
                             IF "DISPENSE" \in moved
                               THEN << <<old_states, symbol, new>> >>
                               ELSE Append(@, <<old_states, symbol, new>>)]
        /\ last' = [last EXCEPT ![i] =
                      [op |-> "transition", symbol |-> symbol,
                       old |-> old_states, new |-> new, dispensed |-> dispensed]]
  /\ UNCHANGED <<closureVars, worklistVars, runVars>>

\* NFASimulator.transition(symbol) on instance i
NFASimulator_transition(i, symbol) ==
  /\ machines[i].cls = "NFASimulator"
  /\ LET old_states == machines[i].current_states
         moved == NFASimulator_moved(old_states, symbol)
         dispensed == NFASimulator_dispensed(moved, symbol)
         new == NFASimulator_after(moved)
     IN /\ machines' = [machines EXCEPT
                          ![i].current_states = new,
                          ![i].history = Append(@, <<old_states, symbol, new>>)]
        /\ last' = [last EXCEPT ![i] =
                      [op |-> "transition", symbol |-> symbol,
                       old |-> old_states, new |-> new, dispensed |-> dispensed]]
  /\ UNCHANGED <<closureVars, worklistVars, runVars>>

\* NFASimulator.reset()
NFASimulator_reset(i) ==
  /\ machines[i].cls = "NFASimulator"
  /\ machines' = [machines EXCEPT
                    ![i].current_states = NFASimulator_epsilon_closure({NFASimulator_INITIAL}),
                    ![i].history = <<>>]
  /\ last' = [last EXCEPT ![i] = [op |-> "reset"]]
  /\ UNCHANGED <<closureVars, worklistVars, runVars>>

RECURSIVE MaxBalance_keeps_smaller(_, _)
\* the loop of get_balance with the comparison turned round
MaxBalance_keeps_smaller(states, max_bal) ==
  IF states = {} THEN max_bal
  ELSE LET state == CHOOSE s \in states : TRUE
           bal == Get(NFASimulator_STATE_INFO, state, 0)
       IN MaxBalance_keeps_smaller(states \ {state}, IF bal < max_bal THEN bal ELSE max_bal)

RECURSIVE MaxBalance(_, _)
\* the loop of NFASimulator.get_balance over the states still to visit
MaxBalance(states, max_bal) ==
  IF states = {} THEN max_bal
  ELSE LET state == CHOOSE s \in states : TRUE
           bal == Get(NFASimulator_STATE_INFO, state, 0)
       IN MaxBalance(states \ {state}, IF bal > max_bal THEN bal ELSE max_bal)

NFASimulator_get_balance(self) == MaxBalance(self.current_states, 0)
NFASimulator_is_accepting(self) == (self.current_states \cap NFASimulator_ACCEPTING) # {}
NFASimulator_can_buy_eye_drop(self) == "EYE_READY" \in self.current_states
NFASimulator_can_buy_vitamin(self) == "VIT_READY" \in self.current_states

(* ---------------------------------------------------------------------- *)
(* 4. The single-path DFA of vending_machine_streamlit.py (web session)    *)
(* ---------------------------------------------------------------------- *)
Streamlit_ACCEPTING_STATES == {"Q7", "Q8", "Q9", "Q10"}

Streamlit_DELTA ==
     ("Q0"  :> [RM5 |-> "Q1",  RM10 |-> "Q2",  RM20 |-> "Q4",  e |-> "Q0", v |-> "Q0"])
  @@ ("Q1"  :> [RM5 |-> "Q2",  RM10 |-> "Q3",  RM20 |-> "Q5",  e |-> "Q1", v |-> "Q1"])
  @@ ("Q2"  :> [RM5 |-> "Q3",  RM10 |-> "Q4",  RM20 |-> "Q6",  e |-> "Q2", v |-> "Q2"])
  @@ ("Q3"  :> [RM5 |-> "Q4",  RM10 |-> "Q5",  RM20 |-> "Q7",  e |-> "Q3", v |-> "Q3"])
  @@ ("Q4"  :> [RM5 |-> "Q5",  RM10 |-> "Q6",  RM20 |-> "Q8",  e |-> "Q4", v |-> "Q4"])
  @@ ("Q5"  :> [RM5 |-> "Q6",  RM10 |-> "Q7",  RM20 |-> "Q9",  e |-> "Q5", v |-> "Q5"])
  @@ ("Q6"  :> [RM5 |-> "Q7",  RM10 |-> "Q8",  RM20 |-> "Q10", e |-> "Q6", v |-> "Q6"])
  @@ ("Q7"  :> [RM5 |-> "Q8",  RM10 |-> "Q9",  RM20 |-> "Q10", e |-> "Q0", v |-> "Q7"])
  @@ ("Q8"  :> [RM5 |-> "Q9",  RM10 |-> "Q10", RM20 |-> "Q10", e |-> "Q0", v |-> "Q8"])
  @@ ("Q9"  :> [RM5 |-> "Q10", RM10 |-> "Q10", RM20 |-> "Q10", e |-> "Q0", v |-> "Q9"])
  @@ ("Q10" :> [RM5 |-> "Q10", RM10 |-> "Q10", RM20 |-> "Q10", e |-> "Q0", v |-> "Q0"])

\* balance column of STATE_INFO
Streamlit_STATE_INFO ==
     ("Q0" :> 0)  @@ ("Q1" :> 5)  @@ ("Q2" :> 10) @@ ("Q3" :> 15)
  @@ ("Q4" :> 20) @@ ("Q5" :> 25) @@ ("Q6" :> 30) @@ ("Q7" :> 35)
  @@ ("Q8" :> 40) @@ ("Q9" :> 45) @@ ("Q10" :> 50)

\* lookup in a table whose accepting rows all send v back to Q0
Streamlit_lookup_loose_v(old_state, symbol) ==
  IF old_state \in Streamlit_ACCEPTING_STATES /\ symbol = "v" THEN "Q0"
  ELSE Get(Get(Streamlit_DELTA, old_state, <<>>), symbol, old_state)

\* new_state = DELTA.get(old_state, {}).get(symbol, old_state)
Streamlit_lookup(old_state, symbol) ==
  Get(Get(Streamlit_DELTA, old_state, <<>>), symbol, old_state)

\* the dispense rule of transition
Streamlit_dispensed(old_state, new_state, symbol) ==
  IF old_state \in Streamlit_ACCEPTING_STATES /\ new_state = "Q0"
    THEN IF symbol = "e" THEN "Eye Drop"
         ELSE IF symbol = "v" THEN "Vitamin" ELSE None
    ELSE None

\* "Initialize session state"
Streamlit_init ==
  [cls |-> "Streamlit", current_state |-> "Q0",
   current_states |-> {}, history |-> <<>>]

\* transition(symbol) on session i
Streamlit_transition(i, symbol) ==
  /\ machines[i].cls = "Streamlit"
  /\ LET old_state == machines[i].current_state
         new_state == Streamlit_lookup(old_state, symbol)
         dispensed == Streamlit_dispensed(old_state, new_state, symbol)
     IN /\ machines' = [machines EXCEPT
                          ![i].current_state = new_state,
                          ![i].history = Append(@, <<old_state, symbol, new_state, dispensed>>)]
        /\ last' = [last EXCEPT ![i] =
                      [op |-> "transition", symbol |-> symbol,
                       old |-> old_state, new |-> new_state, dispensed |-> dispensed]]
  /\ UNCHANGED <<closureVars, worklistVars, runVars>>

\* reset_machine()
Streamlit_reset_machine(i) ==
  /\ machines[i].cls = "Streamlit"
  /\ machines' = [machines EXCEPT
                    ![i].current_state = "Q0",
                    ![i].history = <<>>]
  /\ last' = [last EXCEPT ![i] = [op |-> "reset"]]
  /\ UNCHANGED <<closureVars, worklistVars, runVars>>

Streamlit_get_balance(self) == Get(Streamlit_STATE_INFO, self.current_state, 0)
Streamlit_is_accepting(self) == self.current_state \in Streamlit_ACCEPTING_STATES
Streamlit_can_buy_vitamin(self) == self.current_state = "Q10"

(* ---------------------------------------------------------------------- *)
(* Runtime instances and the calls made on them                            *)
(* ---------------------------------------------------------------------- *)
Instances == {1, 2}

\* an instance slot that no constructor has filled
Unconstructed ==
  [cls |-> None, current_state |-> None, current_states |-> {}, history |-> <<>>]

\* symbols a caller passes: the declared alphabet and symbols outside it
OriginalDFA_inputs == OriginalDFA_SIGMA \cup {"select_e"}
TwoLineDFA_inputs == TwoLineDFA_SIGMA \cup {"dispense_e"}
NFASimulator_inputs == NFASimulator_SIGMA \cup {"e", "eps"}
Streamlit_inputs == {"RM5", "RM10", "RM20", "e", "v", "select_e"}

CanCall(i) == Len(machines[i].history) < MaxHistory

CallOriginalDFA ==
  \E i \in Instances, symbol \in OriginalDFA_inputs :
    CanCall(i) /\ OriginalDFA_transition(i, symbol)
CallTwoLineDFA ==
  \E i \in Instances, symbol \in TwoLineDFA_inputs :
    CanCall(i) /\ TwoLineDFA_transition(i, symbol)
CallNFASimulator ==
  \E i \in Instances, symbol \in NFASimulator_inputs :
    CanCall(i) /\ NFASimulator_transition(i, symbol)
CallStreamlit ==
  \E i \in Instances, symbol \in Streamlit_inputs :
    CanCall(i) /\ Streamlit_transition(i, symbol)
ResetOriginalDFA == \E i \in Instances : OriginalDFA_reset(i)
ResetTwoLineDFA == \E i \in Instances : TwoLineDFA_reset(i)
ResetNFASimulator == \E i \in Instances : NFASimulator_reset(i)
ResetStreamlit == \E i \in Instances : Streamlit_reset_machine(i)

NoTableWalk == run = [cls |-> None]
NoClosureRun == ec_seed = {} /\ ec_states = {} /\ ec_prev = {} /\ ec_calls = 0
NoWorklistRun ==
  /\ wl_eps = <<>> /\ wl_seed = {} /\ wl_closure = {}
  /\ wl_stack = <<>> /\ wl_popped = <<>> /\ wl_pushed = <<>> /\ wl_pc = "idle"

\* one runtime instance of any of the engines, freshly constructed
Init ==
  /\ \E obj \in {OriginalDFA_init, TwoLineDFA_init, NFASimulator_init, Streamlit_init} :
       machines = [i \in Instances |-> IF i = 1 THEN obj ELSE Unconstructed]
  /\ last = [i \in Instances |-> IF i = 1 THEN [op |-> "__init__"] ELSE [op |-> None]]
  /\ NoClosureRun
  /\ NoWorklistRun
  /\ NoTableWalk

Next ==
  \/ CallOriginalDFA
  \/ CallTwoLineDFA
  \/ CallNFASimulator
  \/ CallStreamlit
  \/ ResetOriginalDFA
  \/ ResetTwoLineDFA
  \/ ResetNFASimulator
  \/ ResetStreamlit

Spec == Init /\ [][Next]_vars

(* ---------------------------------------------------------------------- *)
(* A purchase on the single-path engine: coins, then one product request   *)
(* ---------------------------------------------------------------------- *)
\* prices of the module docstring
EyeDropPrice == 35
VitaminPrice == 50

MoneySymbols == {"RM5", "RM10", "RM20"}
Amount(symbol) ==
  CASE symbol = "RM5" -> 5 [] symbol = "RM10" -> 10 [] symbol = "RM20" -> 20
    [] OTHER -> 0

\* the history holds money symbols only
AllMoney(h) == \A k \in 1..Len(h) : h[k][2] \in MoneySymbols

\* the amounts of the symbols of a history, added up
RECURSIVE Inserted(_)
Inserted(h) ==
  IF h = <<>> THEN 0 ELSE Amount(h[Len(h)][2]) + Inserted(SubSeq(h, 1, Len(h) - 1))

\* a coin goes in while the coins so far add up to less than the dearer price
InsertMoney ==
  \E i \in Instances, symbol \in MoneySymbols :
    /\ AllMoney(machines[i].history)
    /\ Inserted(machines[i].history) < VitaminPrice
    /\ OriginalDFA_transition(i, symbol)

\* the product button pressed after the coins
RequestProduct ==
  \E i \in Instances, symbol \in {"e", "v"} :
    /\ AllMoney(machines[i].history)
    /\ OriginalDFA_transition(i, symbol)

InitMoney ==
  /\ machines = [i \in Instances |-> IF i = 1 THEN OriginalDFA_init ELSE Unconstructed]
  /\ last = [i \in Instances |-> IF i = 1 THEN [op |-> "__init__"] ELSE [op |-> None]]
  /\ NoClosureRun
  /\ NoWorklistRun
  /\ NoTableWalk

NextMoney == InsertMoney \/ RequestProduct

SpecMoney == InitMoney /\ [][NextMoney]_vars

(* ---------------------------------------------------------------------- *)
(* A purchase on the non-deterministic engine: coins, then one request     *)
(* ---------------------------------------------------------------------- *)
\* a coin goes in while the coins so far add up to less than the dearer price
NFA_InsertMoney ==
  \E i \in Instances, symbol \in MoneySymbols :
    /\ AllMoney(machines[i].history)
    /\ Inserted(machines[i].history) < VitaminPrice
    /\ NFASimulator_transition(i, symbol)

\* a dispense button pressed after the coins
NFA_RequestProduct ==
  \E i \in Instances, symbol \in {"dispense_e", "dispense_v"} :
    /\ AllMoney(machines[i].history)
    /\ NFASimulator_transition(i, symbol)

InitNFAMoney ==
  /\ machines = [i \in Instances |-> IF i = 1 THEN NFASimulator_init ELSE Unconstructed]
  /\ last = [i \in Instances |-> IF i = 1 THEN [op |-> "__init__"] ELSE [op |-> None]]
  /\ NoClosureRun
  /\ NoWorklistRun
  /\ NoTableWalk

NextNFAMoney == NFA_InsertMoney \/ NFA_RequestProduct

SpecNFAMoney == InitNFAMoney /\ [][NextNFAMoney]_vars

(* ---------------------------------------------------------------------- *)
(* Two instances side by side, as the tabs of ComparisonGUI hold them:     *)
(* process_input and reset_machine act on the instance of one tab          *)
(* ---------------------------------------------------------------------- *)
PairCanCall(i) == Len(machines[i].history) < MaxPairHistory

\* process_input(name, symbol) on a tab that holds an OriginalDFA
Pair_CallOriginalDFA ==
  \E i \in Instances, symbol \in OriginalDFA_SIGMA :
    PairCanCall(i) /\ OriginalDFA_transition(i, symbol)
\* process_input(name, symbol) on a tab that holds a TwoLineDFA
Pair_CallTwoLineDFA ==
  \E i \in Instances, symbol \in TwoLineDFA_SIGMA :
    PairCanCall(i) /\ TwoLineDFA_transition(i, symbol)
\* process_input(name, symbol) on a tab that holds an NFASimulator
Pair_CallNFASimulator ==
  \E i \in Instances, symbol \in NFASimulator_SIGMA :
    PairCanCall(i) /\ NFASimulator_transition(i, symbol)

\* self.machines[cls.NAME] = cls() for each tab, any engine in any slot
InitPair ==
  /\ machines \in [Instances -> {OriginalDFA_init, TwoLineDFA_init, NFASimulator_init}]
  /\ last = [i \in Instances |-> [op |-> "__init__"]]
  /\ NoClosureRun
  /\ NoWorklistRun
  /\ NoTableWalk

NextPair ==
  \/ Pair_CallOriginalDFA
  \/ Pair_CallTwoLineDFA
  \/ Pair_CallNFASimulator
  \/ ResetOriginalDFA
  \/ ResetTwoLineDFA
  \/ ResetNFASimulator

SpecPair == InitPair /\ [][NextPair]_vars

(* ---------------------------------------------------------------------- *)
(* The same calls on two engines: every transition and reset made on an    *)
(* OriginalDFA is made next on a second engine, an NFASimulator (with the  *)
(* product symbols its tab uses) or the web session                        *)
(* ---------------------------------------------------------------------- *)
\* eye_symbol / vit_symbol of create_tab_content
NFASymbol(symbol) ==
  CASE symbol = "e" -> "dispense_e" [] symbol = "v" -> "dispense_v" [] OTHER -> symbol

\* the second engine has not received the latest call of the first yet
Behind ==
  \/ last[1].op = "reset" /\ last[2].op # "reset"
  \/ last[1].op = "transition" /\ Len(machines[2].history) < Len(machines[1].history)

\* transition(symbol) on the first engine; the NFA is compared on the
\* alphabet its symbols are mapped from
Lockstep_Call ==
  \E symbol \in OriginalDFA_inputs :
    /\ ~Behind /\ CanCall(1)
    /\ symbol \in OriginalDFA_SIGMA \/ machines[2].cls = "Streamlit"
    /\ OriginalDFA_transition(1, symbol)
\* reset() on the first engine
Lockstep_Reset == ~Behind /\ OriginalDFA_reset(1)
\* the same transition on the second engine
Lockstep_FollowNFA ==
  /\ Behind /\ last[1].op = "transition"
  /\ NFASimulator_transition(2, NFASymbol(last[1].symbol))
Lockstep_FollowStreamlit ==
  /\ Behind /\ last[1].op = "transition"
  /\ Streamlit_transition(2, last[1].symbol)
\* the same reset on the second engine
Lockstep_FollowResetNFA == Behind /\ last[1].op = "reset" /\ NFASimulator_reset(2)
Lockstep_FollowResetStreamlit == Behind /\ last[1].op = "reset" /\ Streamlit_reset_machine(2)

InitLockstep ==
  /\ \E obj \in {NFASimulator_init, Streamlit_init} :
       machines = [i \in Instances |-> IF i = 1 THEN OriginalDFA_init ELSE obj]
  /\ last = [i \in Instances |-> [op |-> "__init__"]]
  /\ NoClosureRun
  /\ NoWorklistRun
  /\ NoTableWalk

NextLockstep ==
  \/ Lockstep_Call
  \/ Lockstep_Reset
  \/ Lockstep_FollowNFA
  \/ Lockstep_FollowStreamlit
  \/ Lockstep_FollowResetNFA
  \/ Lockstep_FollowResetStreamlit

SpecLockstep == InitLockstep /\ [][NextLockstep]_vars

(* ---------------------------------------------------------------------- *)
(* The single-path transition function walked from any of its states:      *)
(* the lookup and the dispense rule of transition are applied to a state,  *)
(* no log being kept                                                       *)
(* ---------------------------------------------------------------------- *)
\* DELTA.get(old, {}).get(symbol, old) of the desktop or of the web engine
SinglePath_lookup(cls, old, symbol) ==
  IF cls = "Streamlit" THEN Streamlit_lookup(old, symbol)
  ELSE OriginalDFA_lookup(old, symbol)

\* the dispense rule of the desktop or of the web engine
SinglePath_dispensed(cls, old, new, symbol) ==
  IF cls = "Streamlit" THEN Streamlit_dispensed(old, new, symbol)
  ELSE OriginalDFA_dispensed(old, new, symbol)

\* the walk starts at any state of the table
InitWalk ==
  /\ machines = [i \in Instances |-> Unconstructed]
  /\ last = [i \in Instances |-> [op |-> None]]
  /\ NoClosureRun
  /\ NoWorklistRun
  /\ \E cls \in {"OriginalDFA", "Streamlit"}, state \in OriginalDFA_STATES :
       run = [cls |-> cls, current_state |-> state, money |-> 0, op |-> "start",
              old |-> None, symbol |-> None, dispensed |-> None]

\* transition(symbol) with a money symbol
Walk_Money ==
  \E symbol \in MoneySymbols :
    /\ run.cls # None
    /\ run.money < MaxRun
    /\ LET old == run.current_state
           new == SinglePath_lookup(run.cls, old, symbol)
       IN run' = [cls |-> run.cls, current_state |-> new, money |-> run.money + 1,
                  op |-> "transition", old |-> old, symbol |-> symbol,
                  dispensed |-> SinglePath_dispensed(run.cls, old, new, symbol)]
    /\ UNCHANGED <<engineVars, closureVars, worklistVars>>

\* transition(symbol) with a product symbol
Walk_Product ==
  \E symbol \in {"e", "v"} :
    /\ run.cls # None
    /\ LET old == run.current_state
           new == SinglePath_lookup(run.cls, old, symbol)
       IN run' = [cls |-> run.cls, current_state |-> new, money |-> 0,
                  op |-> "transition", old |-> old, symbol |-> symbol,
                  dispensed |-> SinglePath_dispensed(run.cls, old, new, symbol)]
    /\ UNCHANGED <<engineVars, closureVars, worklistVars>>

\* reset() / reset_machine()
Walk_Reset ==
  /\ run.cls # None
  /\ run' = [cls |-> run.cls, current_state |-> "Q0", money |-> 0,
             op |-> "reset", old |-> run.current_state, symbol |-> None,
             dispensed |-> None]
  /\ UNCHANGED <<engineVars, closureVars, worklistVars>>

NextWalk == Walk_Money \/ Walk_Product \/ Walk_Reset

SpecWalk == InitWalk /\ [][NextWalk]_vars

(* ---------------------------------------------------------------------- *)
(* The web page: the buttons of the left column act on the session         *)
(* ---------------------------------------------------------------------- *)
\* eye_disabled = not is_accepting()
Web_eye_disabled(self) == ~Streamlit_is_accepting(self)

\* the vitamin button disabled by the test of the eye-drop button
Web_vit_disabled_as_eye(self) == ~Streamlit_is_accepting(self)

\* vit_disabled = not can_buy_vitamin()
Web_vit_disabled(self) == ~Streamlit_can_buy_vitamin(self)

\* the buttons RM5, RM10, RM20
Web_MoneyButton ==
  \E i \in Instances, symbol \in MoneySymbols :
    CanCall(i) /\ Streamlit_transition(i, symbol)
\* the Eye Drop button, which can be pressed unless disabled
Web_EyeDropButton ==
  \E i \in Instances :
    /\ CanCall(i)
    /\ machines[i].cls = "Streamlit"
    /\ ~Web_eye_disabled(machines[i])
    /\ Streamlit_transition(i, "e")
\* the Vitamin button, which can be pressed unless disabled
Web_VitaminButton ==
  \E i \in Instances :
    /\ CanCall(i)
    /\ machines[i].cls = "Streamlit"
    /\ ~Web_vit_disabled(machines[i])
    /\ Streamlit_transition(i, "v")
\* the Reset Machine button
Web_ResetButton == \E i \in Instances : Streamlit_reset_machine(i)

InitWeb ==
  /\ machines = [i \in Instances |-> IF i = 1 THEN Streamlit_init ELSE Unconstructed]
  /\ last = [i \in Instances |-> IF i = 1 THEN [op |-> "__init__"] ELSE [op |-> None]]
  /\ NoClosureRun
  /\ NoWorklistRun
  /\ NoTableWalk

NextWeb ==
  \/ Web_MoneyButton
  \/ Web_EyeDropButton
  \/ Web_VitaminButton
  \/ Web_ResetButton

SpecWeb == InitWeb /\ [][NextWeb]_vars

(* ---------------------------------------------------------------------- *)
(* _epsilon_closure as a function: applied to a set of states, then to     *)
(* what it returned                                                        *)
(* ---------------------------------------------------------------------- *)
InitClosure ==
  /\ machines = [i \in Instances |-> Unconstructed]
  /\ last = [i \in Instances |-> [op |-> None]]
  /\ ec_seed \in SUBSET NFASimulator_STATES
  /\ ec_states = ec_seed
  /\ ec_prev = {}
  /\ ec_calls = 0
  /\ NoWorklistRun
  /\ NoTableWalk

\* ec_states = self._epsilon_closure(ec_states)
ApplyClosure ==
  /\ ec_calls < MaxClosureCalls
  /\ ec_prev' = ec_states
  /\ ec_states' = NFASimulator_epsilon_closure(ec_states)
  /\ ec_calls' = ec_calls + 1
  /\ UNCHANGED <<ec_seed, machines, last, worklistVars, runVars>>

NextClosure == ApplyClosure

SpecClosure == InitClosure /\ [][NextClosure]_vars

(* ---------------------------------------------------------------------- *)
(* _epsilon_closure step by step: one action per iteration of its while    *)
(* loop, with every order list(states) and the for loop may produce        *)
(* ---------------------------------------------------------------------- *)
\* the lists that enumerate a set: list(a_set), for x in a_set
RECURSIVE Orders(_)
Orders(S) ==
  IF S = {} THEN {<<>>}
  ELSE UNION { { <<x>> \o rest : rest \in Orders(S \ {x}) } : x \in S }

Range(seq) == { seq[k] : k \in 1..Len(seq) }

\* a for loop that leaves after the first successor it adds
Worklist_visits_first_only(successors, closure) ==
  { <<x>> : x \in successors \ closure } \cup
  (IF successors \ closure = {} THEN {<<>>} ELSE {})

\* a for loop without the "if next_state not in closure" test: every
\* epsilon successor is added and pushed
Worklist_visits_no_closure_test(successors, closure) == Orders(successors)

\* the for loop over the epsilon successors of the popped state: the lists
\* of states it can add and push, in the order it meets them
Worklist_visits(successors, closure) == Orders(successors \ closure)

\* closure = set(states); stack = list(states), on the engine's own DELTA
InitWorklist ==
  /\ machines = [i \in Instances |-> Unconstructed]
  /\ last = [i \in Instances |-> [op |-> None]]
  /\ NoClosureRun
  /\ NoTableWalk
  /\ wl_eps = [s \in NFASimulator_STATES |-> NFASimulator_eps(s)]
  /\ wl_seed \in { S \in SUBSET NFASimulator_STATES : Cardinality(S) <= MaxSeed }
  /\ wl_closure = wl_seed
  /\ wl_stack \in Orders(wl_seed)
  /\ wl_popped = <<>>
  /\ wl_pushed = <<>>
  /\ wl_pc = "loop"

\* one iteration of "while stack:"
Worklist_pop ==
  /\ wl_pc = "loop"
  /\ wl_stack # <<>>
  /\ LET state == wl_stack[Len(wl_stack)]
         rest == SubSeq(wl_stack, 1, Len(wl_stack) - 1)
     IN \E pushed \in Worklist_visits(Get(wl_eps, state, {}), wl_closure) :
          /\ wl_closure' = wl_closure \cup Range(pushed)
          /\ wl_stack' = rest \o pushed
          /\ wl_popped' = Append(wl_popped, state)
          /\ wl_pushed' = wl_pushed \o pushed
  /\ UNCHANGED <<wl_eps, wl_seed, wl_pc, machines, last, closureVars, runVars>>

\* the loop ends on an empty stack: return closure
Worklist_return ==
  /\ wl_pc = "loop"
  /\ wl_stack = <<>>
  /\ wl_pc' = "done"
  /\ UNCHANGED <<wl_eps, wl_seed, wl_closure, wl_stack, wl_popped, wl_pushed,
               machines, last, closureVars, runVars>>

NextWorklist == Worklist_pop \/ Worklist_return

SpecWorklist == InitWorklist /\ [][NextWorklist]_vars

(* ---------------------------------------------------------------------- *)
(* _epsilon_closure step by step on any DELTA: a few states with up to     *)
(* MaxEdges epsilon edges between them, self-loops and cycles included     *)
(* ---------------------------------------------------------------------- *)
\* the states of the table the run reads
AnyStates == {"A", "B", "C"}

\* DELTA[state]['eps'] for a set of epsilon edges
EpsTable(edges) == [s \in AnyStates |-> { t \in AnyStates : <<s, t>> \in edges }]

\* closure = set(states); stack = list(states), on a table drawn from the
\* epsilon relations over AnyStates with at most MaxEdges edges
InitWorklistAny ==
  /\ machines = [i \in Instances |-> Unconstructed]
  /\ last = [i \in Instances |-> [op |-> None]]
  /\ NoClosureRun
  /\ NoTableWalk
  /\ \E edges \in { E \in SUBSET (AnyStates \X AnyStates) : Cardinality(E) <= MaxEdges } :
       wl_eps = EpsTable(edges)
  /\ wl_seed \in { S \in SUBSET AnyStates : Cardinality(S) <= MaxSeed }
  /\ wl_closure = wl_seed
  /\ wl_stack \in Orders(wl_seed)
  /\ wl_popped = <<>>
  /\ wl_pushed = <<>>
  /\ wl_pc = "loop"

\* the interpreter keeps running the loop: a step that can be taken is taken
SpecWorklistAny == InitWorklistAny /\ [][NextWorklist]_vars /\ WF_vars(NextWorklist)

(* ---------------------------------------------------------------------- *)
(* Vocabulary of the properties                                            *)
(* ---------------------------------------------------------------------- *)
\* a set of NFA states that holds every epsilon successor of its members
EpsClosed(C) == \A s \in C : NFASimulator_DELTA[s].eps \subseteq C

\* the states reachable from S over at most n epsilon edges
RECURSIVE EpsReach(_, _)
EpsReach(S, n) ==
  IF n = 0 THEN S
  ELSE EpsReach(S \cup UNION { NFASimulator_DELTA[s].eps : s \in S }, n - 1)

\* the smallest superset of S closed under epsilon edges
LeastClosed(S) == EpsReach(S, Cardinality(NFASimulator_STATES))

Constructed == { i \in Instances : machines[i].cls # None }
ELine == {"E1", "E2", "E3", "E4", "E5", "E6", "E7"}
VLine == {"V1", "V2", "V3", "V4", "V5", "V6", "V7", "V8", "V9", "V10"}
Min(a, b) == IF a < b THEN a ELSE b
\* a two-line transition that applied the other line's selection symbol
SwitchedLine(r) ==
  \/ r.old \in ELine /\ r.symbol = "select_v"
  \/ r.old \in VLine /\ r.symbol = "select_e"
\* a two-line transition that applied the other line's product symbol
OtherProduct(r) ==
  \/ r.old \in ELine /\ r.symbol = "v"
  \/ r.old \in VLine /\ r.symbol = "e"
\* what the held states offer for a symbol, a state without an entry for
\* the symbol offering nothing
Offered(states, symbol) ==
  UNION { IF symbol \in DOMAIN NFASimulator_DELTA[s]
            THEN NFASimulator_DELTA[s][symbol] ELSE {} : s \in states }
\* the NFA states that stand for an amount of money
NFA_MoneyStates == NFASimulator_STATES \ {"EYE_READY", "VIT_READY", "DISPENSE"}
\* the declared alphabet of an instance's class
Alphabet(cls) ==
  CASE cls = "OriginalDFA" -> OriginalDFA_SIGMA
    [] cls = "TwoLineDFA" -> TwoLineDFA_SIGMA
    [] cls = "NFASimulator" -> NFASimulator_SIGMA
    [] OTHER -> {}
\* the current position of an instance: a state, or a set of states
Position(m) == IF m.cls = "NFASimulator" THEN m.current_states ELSE m.current_state
Engines == {"OriginalDFA", "TwoLineDFA", "NFASimulator"}
\* a logged single-path transition that dispensed
Dispensing(entry) ==
  entry[1] \in {"Q7", "Q8", "Q9", "Q10"} /\ entry[3] = "Q0" /\ entry[2] \in {"e", "v"}
\* the part of a single-path history after its last dispensing entry
RECURSIVE SinceDispense(_)
SinceDispense(h) ==
  IF h = <<>> \/ Dispensing(h[Len(h)]) THEN <<>>
  ELSE Append(SinceDispense(SubSeq(h, 1, Len(h) - 1)), h[Len(h)])
\* the balances of a set of NFA states
Balances(states) == { NFASimulator_STATE_INFO[s] : s \in states }
\* the largest number of a non-empty set
Largest(N) == CHOOSE n \in N : \A m \in N : m <= n
\* the symbols of a history, in order
Symbols(h) == [k \in 1..Len(h) |-> h[k][2]]
Transitioned(i) == last[i].op = "transition"
\* the balance a position stands for: the balance of the state, or the
\* largest balance of the states of a set
BalanceAt(cls, pos) ==
  CASE cls = "OriginalDFA" -> OriginalDFA_STATE_INFO[pos]
    [] cls = "TwoLineDFA" -> TwoLineDFA_STATE_INFO[pos]
    [] cls = "NFASimulator" -> IF pos = {} THEN 0 ELSE Largest(Balances(pos))
    [] OTHER -> 0
\* the instance as it was immediately before its latest transition
Before(i) ==
  [machines[i] EXCEPT !.current_state = IF machines[i].cls = "NFASimulator" THEN @ ELSE last[i].old,
                      !.current_states = IF machines[i].cls = "NFASimulator" THEN last[i].old ELSE @]
\* the symbol that requests the eye drop / the vitamin from an engine
EyeSymbol(cls) == IF cls = "NFASimulator" THEN "dispense_e" ELSE "e"
VitSymbol(cls) == IF cls = "NFASimulator" THEN "dispense_v" ELSE "v"
\* the gating queries of an instance's class
CanBuyEyeDrop(m) ==
  CASE m.cls = "OriginalDFA" -> OriginalDFA_can_buy_eye_drop(m)
    [] m.cls = "TwoLineDFA" -> TwoLineDFA_can_buy_eye_drop(m)
    [] m.cls = "NFASimulator" -> NFASimulator_can_buy_eye_drop(m)
    [] OTHER -> FALSE
CanBuyVitamin(m) ==
  CASE m.cls = "OriginalDFA" -> OriginalDFA_can_buy_vitamin(m)
    [] m.cls = "TwoLineDFA" -> TwoLineDFA_can_buy_vitamin(m)
    [] m.cls = "NFASimulator" -> NFASimulator_can_buy_vitamin(m)
    [] OTHER -> FALSE
\* the position an instance of a class starts from
InitialPosition(cls) ==
  CASE cls = "OriginalDFA" -> "Q0"
    [] cls = "TwoLineDFA" -> "S0"
    [] cls = "NFASimulator" -> LeastClosed({"Q0"})
    [] cls = "Streamlit" -> "Q0"
\* the price of the line a two-line state lies on
LinePrice(state) == IF state \in ELine THEN EyeDropPrice ELSE VitaminPrice
\* a logged two-line transition that dispensed
TwoLineDispensing(entry) ==
  \/ entry[1] = "E7" /\ entry[2] = "e" /\ entry[3] = "S0"
  \/ entry[1] = "V10" /\ entry[2] = "v" /\ entry[3] = "S0"
\* the part of a two-line history after its last dispensing entry
RECURSIVE TwoLineSinceDispense(_)
TwoLineSinceDispense(h) ==
  IF h = <<>> \/ TwoLineDispensing(h[Len(h)]) THEN <<>>
  ELSE Append(TwoLineSinceDispense(SubSeq(h, 1, Len(h) - 1)), h[Len(h)])

(* ---------------------------------------------------------------------- *)
(* Properties                                                              *)
(* ---------------------------------------------------------------------- *)

\* C1: in OriginalDFA, TwoLineDFA and NFASimulator, whatever calls came
\* before, the state right after reset() has the current position equal to
\* the initial one (Q0, S0, the epsilon closure of {Q0}) and an empty history.
C1_ResetRestoresInitial ==
  \A i \in Instances :
    last[i].op = "reset" =>
      /\ machines[i].history = <<>>
      /\ machines[i].cls = "OriginalDFA" => machines[i].current_state = "Q0"
      /\ machines[i].cls = "TwoLineDFA" => machines[i].current_state = "S0"
      /\ machines[i].cls = "NFASimulator" =>
           machines[i].current_states = LeastClosed({"Q0"})

\* a reset has just run on an OriginalDFA
C1_Witness ==
  \E i \in Instances :
    /\ machines[i].cls = "OriginalDFA"
    /\ last[i].op = "reset"

\* C2: single-path engine: a transition reports a product exactly when the
\* before state is accepting, the after state is Q0 and the symbol is e or v;
\* the product is Eye Drop exactly for e and Vitamin exactly for v, and None
\* in every other case.
C2_SinglePathDispenseRule ==
  \A i \in Instances :
    (machines[i].cls \in {"OriginalDFA", "Streamlit"} /\ Transitioned(i)) =>
      LET r == last[i]
          fires == /\ r.old \in {"Q7", "Q8", "Q9", "Q10"}
                   /\ r.new = "Q0"
                   /\ r.symbol \in {"e", "v"}
      IN /\ (r.dispensed # None) <=> fires
         /\ (r.dispensed = "Eye Drop") <=> (fires /\ r.symbol = "e")
         /\ (r.dispensed = "Vitamin") <=> (fires /\ r.symbol = "v")
         /\ r.dispensed \in {"Eye Drop", "Vitamin", None}

\* v has just been taken from Q10 back to Q0 and Vitamin was reported
C2_Witness ==
  \E i \in Instances :
    /\ machines[i].cls = "OriginalDFA"
    /\ Transitioned(i)
    /\ last[i].old = "Q10" /\ last[i].symbol = "v" /\ last[i].new = "Q0"
    /\ last[i].dispensed = "Vitamin"

\* C3: single-path engine, coins from the initial state: while the coins add
\* up to at most 50 no insertion reports a dispense; after coins adding up to
\* exactly 35 the symbol e reports Eye Drop and leaves the state at Q0; after
\* coins adding up to exactly 50 the symbol v reports Vitamin and leaves the
\* state at Q0.
C3_ExactMoneyThenProduct ==
  \A i \in Instances :
    (machines[i].cls = "OriginalDFA" /\ Transitioned(i)) =>
      LET h == machines[i].history
          coins == SubSeq(h, 1, Len(h) - 1)
          request == h[Len(h)][2]
      IN /\ (AllMoney(h) /\ Inserted(h) <= VitaminPrice) => last[i].dispensed = None
         /\ (AllMoney(coins) /\ Inserted(coins) = EyeDropPrice /\ request = "e") =>
              /\ last[i].dispensed = "Eye Drop"
              /\ machines[i].current_state = "Q0"
         /\ (AllMoney(coins) /\ Inserted(coins) = VitaminPrice /\ request = "v") =>
              /\ last[i].dispensed = "Vitamin"
              /\ machines[i].current_state = "Q0"

\* ten RM5 coins, then v
C3_Witness ==
  \E i \in Instances :
    LET h == machines[i].history
    IN /\ machines[i].cls = "OriginalDFA"
       /\ Len(h) = 11
       /\ \A k \in 1..10 : h[k][2] = "RM5"
       /\ h[11][2] = "v"
       /\ last[i].dispensed = "Vitamin"

\* C4 as stated: single-path engine: from Q7, Q8 and Q9 the symbol v moves
\* the state to Q0 and reports Vitamin.
C4_Original ==
  \A i \in Instances :
    (/\ machines[i].cls = "OriginalDFA" /\ Transitioned(i)
     /\ last[i].old \in {"Q7", "Q8", "Q9"} /\ last[i].symbol = "v") =>
      /\ last[i].new = "Q0"
      /\ machines[i].current_state = "Q0"
      /\ last[i].dispensed = "Vitamin"

\* C4 (amended): single-path engine: from Q7, Q8 and Q9 (balance 35, 40, 45)
\* the symbol v leaves the state unchanged and reports no dispense; v reports
\* Vitamin, and moves to Q0, only from Q10.
C4_VitaminOnlyFromQ10 ==
  \A i \in Instances :
    (machines[i].cls = "OriginalDFA" /\ Transitioned(i) /\ last[i].symbol = "v") =>
      /\ last[i].old \in {"Q7", "Q8", "Q9"} =>
           /\ last[i].new = last[i].old
           /\ machines[i].current_state = last[i].old
           /\ last[i].dispensed = None
      /\ last[i].dispensed = "Vitamin" <=> last[i].old = "Q10"
      /\ last[i].old = "Q10" => machines[i].current_state = "Q0"

\* v has just been applied at Q8
C4_Witness ==
  \E i \in Instances :
    /\ machines[i].cls = "OriginalDFA" /\ Transitioned(i)
    /\ last[i].old = "Q8" /\ last[i].symbol = "v"

\* C5: dual-path engine: Eye Drop is reported exactly when the before state is
\* E7 and the symbol is e, Vitamin exactly when the before state is V10 and
\* the symbol is v, and then the after state is S0; v at E7 and e at V10 leave
\* the state unchanged and report nothing.
C5_TwoLineDispenseRule ==
  \A i \in Instances :
    (machines[i].cls = "TwoLineDFA" /\ Transitioned(i)) =>
      LET r == last[i]
      IN /\ (r.dispensed = "Eye Drop") <=> (r.old = "E7" /\ r.symbol = "e")
         /\ (r.dispensed = "Vitamin") <=> (r.old = "V10" /\ r.symbol = "v")
         /\ r.dispensed \in {"Eye Drop", "Vitamin", None}
         /\ r.dispensed # None => (r.new = "S0" /\ machines[i].current_state = "S0")
         /\ ((r.old = "E7" /\ r.symbol = "v") \/ (r.old = "V10" /\ r.symbol = "e")) =>
              /\ r.new = r.old
              /\ machines[i].current_state = r.old
              /\ r.dispensed = None

\* e has just been applied at V10
C5_Witness ==
  \E i \in Instances :
    /\ machines[i].cls = "TwoLineDFA" /\ Transitioned(i)
    /\ last[i].old = "V10" /\ last[i].symbol = "e"

\* C6 as stated: dual-path engine: the other line's selection symbol lands on
\* a state of the other line with the same balance as before; never on S0,
\* and on the other line's start state only from the start-state tier.
C6_Original ==
  \A i \in Instances :
    (machines[i].cls = "TwoLineDFA" /\ Transitioned(i) /\ SwitchedLine(last[i])) =>
      LET r == last[i]
      IN /\ r.old \in ELine => r.new \in VLine
         /\ r.old \in VLine => r.new \in ELine
         /\ TwoLineDFA_STATE_INFO[r.new] = TwoLineDFA_STATE_INFO[r.old]
         /\ r.new \in {"E1", "V1"} => r.old \in {"E1", "V1"}

\* C6 (amended): dual-path engine: select_v on an E state lands on the V state
\* of the same balance; select_e on a V state lands on the E state whose
\* balance is the smaller of the balance before and 35, so from V8, V9 and V10
\* (40, 45, 50) it lands on E7 and the balance drops to 35; the machine never
\* lands on S0, and lands on the other line's start state only from this
\* line's start state.
C6_SwitchKeepsTierUpTo35 ==
  \A i \in Instances :
    (machines[i].cls = "TwoLineDFA" /\ Transitioned(i) /\ SwitchedLine(last[i])) =>
      LET r == last[i]
          before == TwoLineDFA_STATE_INFO[r.old]
          after == TwoLineDFA_get_balance(machines[i])
      IN /\ machines[i].current_state = r.new
         /\ r.old \in ELine => (r.new \in VLine /\ after = before)
         /\ r.old \in VLine => (r.new \in ELine /\ after = Min(before, EyeDropPrice))
         /\ r.new \in {"E1", "V1"} => r.old \in {"E1", "V1"}

\* select_e has just been applied at V9
C6_Witness ==
  \E i \in Instances :
    /\ machines[i].cls = "TwoLineDFA" /\ Transitioned(i)
    /\ last[i].old = "V9" /\ last[i].symbol = "select_e"

\* C7: dual-path engine: after select_e, RM20, select_v from S0 the state is
\* on the vitamin line, is not V1, and get_balance() is 20.
C7_SwitchAfterRM20 ==
  \A i \in Instances :
    (/\ machines[i].cls = "TwoLineDFA"
     /\ Symbols(machines[i].history) = <<"select_e", "RM20", "select_v">>) =>
      /\ machines[i].current_state \in VLine
      /\ machines[i].current_state # "V1"
      /\ TwoLineDFA_get_balance(machines[i]) = 20

\* C8: dual-path engine: v on E1..E7 and e on V1..V10 leave the current state
\* unchanged and report no dispense.
C8_OtherProductSelfLoop ==
  \A i \in Instances :
    (machines[i].cls = "TwoLineDFA" /\ Transitioned(i) /\ OtherProduct(last[i])) =>
      /\ last[i].new = last[i].old
      /\ machines[i].current_state = last[i].old
      /\ last[i].dispensed = None

\* v has just been applied at E7
C8_Witness ==
  \E i \in Instances :
    /\ machines[i].cls = "TwoLineDFA" /\ Transitioned(i)
    /\ last[i].old = "E7" /\ last[i].symbol = "v"

\* C9: non-deterministic engine: after construction and after every
\* transition and reset the current set holds every epsilon successor of
\* each of its members.
C9_CurrentSetEpsClosed ==
  \A i \in Instances :
    machines[i].cls = "NFASimulator" => EpsClosed(machines[i].current_states)

\* a transition has just moved to Q10 and its two epsilon successors
C9_Witness ==
  \E i \in Instances :
    /\ machines[i].cls = "NFASimulator" /\ Transitioned(i)
    /\ last[i].old = {"Q6"} /\ last[i].symbol = "RM20"
    /\ machines[i].current_states = {"Q10", "EYE_READY", "VIT_READY"}

\* C10: non-deterministic engine: _epsilon_closure applied to a set that
\* _epsilon_closure returned gives that set back, for every seed set.
C10_ClosureIdempotent ==
  ec_calls >= 2 => ec_states = ec_prev

\* the closure of {Q10, DISPENSE} has been closed again
C10_Witness ==
  /\ ec_calls = 2
  /\ ec_seed = {"Q10", "DISPENSE"}
  /\ ec_prev = {"Q10", "DISPENSE", "EYE_READY", "VIT_READY", "Q0"}
  /\ ec_states = ec_prev

\* C11: non-deterministic engine: whatever order the worklist elements are
\* popped in and the epsilon successors are visited in, _epsilon_closure
\* returns the smallest superset of its seed set that is closed under the
\* epsilon edges of DELTA.
C11_ClosureIsLeastClosedSet ==
  wl_pc = "done" =>
    /\ wl_closure = LeastClosed(wl_seed)
    /\ wl_closure = NFASimulator_epsilon_closure(wl_seed)

\* a finished run on {Q10, DISPENSE} that popped Q10 first and visited
\* VIT_READY before EYE_READY
C11_Witness ==
  /\ wl_pc = "done"
  /\ wl_seed = {"Q10", "DISPENSE"}
  /\ wl_popped = <<"Q10", "EYE_READY", "VIT_READY", "DISPENSE", "Q0">>
  /\ wl_closure = {"Q10", "DISPENSE", "EYE_READY", "VIT_READY", "Q0"}

\* C12: non-deterministic engine: with EYE_READY held, transition(dispense_e)
\* reports Eye Drop and leaves the current set at the epsilon closure of
\* {Q0}; with VIT_READY held, transition(dispense_v) reports Vitamin and
\* leaves it there too; the after set of a transition never holds DISPENSE.
C12_DispenseResetsInSameCall ==
  \A i \in Instances :
    (machines[i].cls = "NFASimulator" /\ Transitioned(i)) =>
      LET r == last[i]
      IN /\ ("EYE_READY" \in r.old /\ r.symbol = "dispense_e") =>
              /\ r.dispensed = "Eye Drop"
              /\ r.new = LeastClosed({"Q0"})
              /\ machines[i].current_states = LeastClosed({"Q0"})
         /\ ("VIT_READY" \in r.old /\ r.symbol = "dispense_v") =>
              /\ r.dispensed = "Vitamin"
              /\ r.new = LeastClosed({"Q0"})
              /\ machines[i].current_states = LeastClosed({"Q0"})
         /\ "DISPENSE" \notin r.new
         /\ "DISPENSE" \notin machines[i].current_states

\* dispense_v has just been applied to {Q10, EYE_READY, VIT_READY}
C12_Witness ==
  \E i \in Instances :
    /\ machines[i].cls = "NFASimulator" /\ Transitioned(i)
    /\ last[i].old = {"Q10", "EYE_READY", "VIT_READY"}
    /\ last[i].symbol = "dispense_v"
    /\ last[i].dispensed = "Vitamin"
    /\ machines[i].current_states = {"Q0"}

\* C13 as stated: non-deterministic engine: after four RM5 insertions from
\* the fresh position the current set holds a money state of balance 35 and
\* holds EYE_READY.
C13_Original ==
  \A i \in Instances :
    (/\ machines[i].cls = "NFASimulator"
     /\ Symbols(machines[i].history) = <<"RM5", "RM5", "RM5", "RM5">>) =>
      /\ \E s \in machines[i].current_states : NFASimulator_STATE_INFO[s] = 35
      /\ "EYE_READY" \in machines[i].current_states

\* C13 (amended): non-deterministic engine: from the fresh position, seven
\* RM5 insertions lead to a current set that holds the money state of balance
\* 35 (Q7) and EYE_READY; four RM5 insertions lead to {Q4}, balance 20,
\* without EYE_READY.
C13_SevenRM5ReachEyeReady ==
  \A i \in Instances :
    machines[i].cls = "NFASimulator" =>
      /\ Symbols(machines[i].history) = [k \in 1..7 |-> "RM5"] =>
           /\ machines[i].current_states = {"Q7", "EYE_READY"}
           /\ NFASimulator_STATE_INFO["Q7"] = 35
      /\ Symbols(machines[i].history) = [k \in 1..4 |-> "RM5"] =>
           /\ machines[i].current_states = {"Q4"}
           /\ NFASimulator_get_balance(machines[i]) = 20

\* seven RM5 coins are in
C13_Witness ==
  \E i \in Instances :
    /\ machines[i].cls = "NFASimulator"
    /\ Symbols(machines[i].history) = [k \in 1..7 |-> "RM5"]
    /\ "EYE_READY" \in machines[i].current_states

\* C14: non-deterministic engine: transition takes the union, over the held
\* states, of DELTA[state][symbol], a state without an entry contributing
\* nothing; on an empty union the current set after the call is the one
\* before it; otherwise the current set becomes the epsilon closure of the
\* union, which the dispense check then replaces by the closure of {Q0}
\* when it holds DISPENSE.
C14_UnionThenClosure ==
  \A i \in Instances :
    (machines[i].cls = "NFASimulator" /\ Transitioned(i)) =>
      LET r == last[i]
          union == Offered(r.old, r.symbol)
          closed == LeastClosed(union)
      IN /\ NFASimulator_successors(r.old, r.symbol) = union
         /\ union = {} =>
              /\ NFASimulator_moved(r.old, r.symbol) = r.old
              /\ r.new = r.old
              /\ machines[i].current_states = r.old
         /\ union # {} =>
              /\ NFASimulator_moved(r.old, r.symbol) = closed
              /\ machines[i].current_states =
                   IF "DISPENSE" \in closed THEN LeastClosed({"Q0"}) ELSE closed

\* dispense_e has just been applied to {Q3}, which offers nothing for it
C14_Witness ==
  \E i \in Instances :
    /\ machines[i].cls = "NFASimulator" /\ Transitioned(i)
    /\ last[i].old = {"Q3"} /\ last[i].symbol = "dispense_e"
    /\ machines[i].current_states = {"Q3"}

\* C15: non-deterministic engine: get_balance() is the largest balance
\* among the held states; with a money state Qi held together with EYE_READY
\* or VIT_READY (balance 0) it is the balance of Qi.
C15_BalanceIsMaximum ==
  \A i \in Instances :
    machines[i].cls = "NFASimulator" =>
      LET held == machines[i].current_states
      IN /\ held # {} => NFASimulator_get_balance(machines[i]) = Largest(Balances(held))
         /\ \A q \in held \cap NFA_MoneyStates :
              NFASimulator_get_balance(machines[i]) = NFASimulator_STATE_INFO[q]

\* Q9 is held together with EYE_READY
C15_Witness ==
  \E i \in Instances :
    /\ machines[i].cls = "NFASimulator"
    /\ machines[i].current_states = {"Q9", "EYE_READY"}
    /\ NFASimulator_get_balance(machines[i]) = 45

\* C16: in each of the three engines a transition on a symbol outside the
\* declared alphabet returns with the position unchanged (after equal to
\* before) and no dispense.
C16_ForeignSymbolNoEffect ==
  \A i \in Instances :
    (/\ machines[i].cls \in Engines /\ Transitioned(i)
     /\ last[i].symbol \notin Alphabet(machines[i].cls)) =>
      /\ last[i].new = last[i].old
      /\ Position(machines[i]) = last[i].old
      /\ last[i].dispensed = None

\* C17: in each of the three engines the history only grows by transition
\* calls and only shrinks by reset: a transition call appends exactly the
\* entry (before, symbol, after) it returns and leaves the earlier entries
\* alone, self-loops, unknown symbols and NFA calls without a move included;
\* a reset empties the log.
C17_HistoryAppendOnly ==
  [][\A i \in Instances :
       (machines[i].cls \in Engines /\ <<machines[i], last[i]>>' # <<machines[i], last[i]>>) =>
         \/ /\ last'[i].op = "transition"
            /\ last'[i].old = Position(machines[i])
            /\ last'[i].new = Position(machines'[i])
            /\ machines'[i].history =
                 Append(machines[i].history,
                        <<last'[i].old, last'[i].symbol, last'[i].new>>)
         \/ /\ last'[i].op = "reset"
            /\ machines'[i].history = <<>>]_vars

\* an NFA call without a move sits in the log after an earlier entry
C17_Witness ==
  \E i \in Instances :
    /\ machines[i].cls = "NFASimulator" /\ Transitioned(i)
    /\ machines[i].history =
         << <<{"Q0"}, "RM10", {"Q2"}>>, <<{"Q2"}, "dispense_v", {"Q2"}>> >>

\* C18: single-path engine: can_buy_eye_drop() holds exactly in Q7..Q10 and
\* can_buy_vitamin() exactly in Q10, so can_buy_vitamin() implies
\* can_buy_eye_drop(); the web session's can_buy_vitamin() likewise holds
\* exactly in Q10.
C18_SinglePathGating ==
  \A i \in Instances :
    /\ machines[i].cls = "OriginalDFA" =>
         /\ OriginalDFA_can_buy_eye_drop(machines[i])
              <=> machines[i].current_state \in {"Q7", "Q8", "Q9", "Q10"}
         /\ OriginalDFA_can_buy_vitamin(machines[i])
              <=> OriginalDFA_get_balance(machines[i]) = 50
         /\ OriginalDFA_can_buy_vitamin(machines[i]) <=> machines[i].current_state = "Q10"
         /\ OriginalDFA_can_buy_vitamin(machines[i]) => OriginalDFA_can_buy_eye_drop(machines[i])
    /\ machines[i].cls = "Streamlit" =>
         Streamlit_can_buy_vitamin(machines[i]) <=> machines[i].current_state = "Q10"

\* the single-path engine stands in Q8: eye drop yes, vitamin no
C18_Witness ==
  \E i \in Instances :
    /\ machines[i].cls = "OriginalDFA"
    /\ machines[i].current_state = "Q8"
    /\ OriginalDFA_can_buy_eye_drop(machines[i])
    /\ ~OriginalDFA_can_buy_vitamin(machines[i])

\* C19: in each of the three engines is_accepting() holds exactly when
\* can_buy_eye_drop() or can_buy_vitamin() holds; for the NFA exactly when
\* the current set meets {EYE_READY, VIT_READY}, for the dual-path engine
\* exactly in E7 and V10.
C19_AcceptingIffPurchasePossible ==
  \A i \in Instances :
    LET m == machines[i]
    IN /\ m.cls = "OriginalDFA" =>
            OriginalDFA_is_accepting(m)
              <=> (OriginalDFA_can_buy_eye_drop(m) \/ OriginalDFA_can_buy_vitamin(m))
       /\ m.cls = "TwoLineDFA" =>
            /\ TwoLineDFA_is_accepting(m)
                 <=> (TwoLineDFA_can_buy_eye_drop(m) \/ TwoLineDFA_can_buy_vitamin(m))
            /\ TwoLineDFA_is_accepting(m) <=> m.current_state \in {"E7", "V10"}
       /\ m.cls = "NFASimulator" =>
            /\ NFASimulator_is_accepting(m)
                 <=> (NFASimulator_can_buy_eye_drop(m) \/ NFASimulator_can_buy_vitamin(m))
            /\ NFASimulator_is_accepting(m)
                 <=> (\E s \in m.current_states : s \in {"EYE_READY", "VIT_READY"})

\* the dual-path engine stands in V10
C19_Witness ==
  \E i \in Instances :
    /\ machines[i].cls = "TwoLineDFA"
    /\ machines[i].current_state = "V10"
    /\ TwoLineDFA_is_accepting(machines[i])

\* C20: single-path engine: get_balance() is the smaller of 50 and the sum
\* of the money symbols applied since the latest construction, reset or
\* dispense; a product symbol that does not dispense leaves it unchanged.
C20_BalanceIsCappedSum ==
  \A i \in Instances :
    machines[i].cls = "OriginalDFA" =>
      /\ OriginalDFA_get_balance(machines[i])
           = Min(50, Inserted(SinceDispense(machines[i].history)))
      /\ (/\ Transitioned(i) /\ last[i].symbol \in {"e", "v"}
          /\ last[i].dispensed = None) =>
           OriginalDFA_STATE_INFO[last[i].new] = OriginalDFA_STATE_INFO[last[i].old]

\* three RM20 coins are in: 60 inserted, balance 50
C20_Witness ==
  \E i \in Instances :
    /\ machines[i].cls = "OriginalDFA"
    /\ Symbols(machines[i].history) = <<"RM20", "RM20", "RM20">>
    /\ OriginalDFA_get_balance(machines[i]) = 50

\* C21: two-line engine: on either line, get_balance() is the sum of the
\* money symbols applied since the latest construction, reset or dispense,
\* capped at the price of the line of the current state (35 on the eye-drop
\* line, 50 on the vitamin line); selection symbols add nothing.
C21_BalanceIsCappedLineSum ==
  \A i \in Instances :
    (/\ machines[i].cls = "TwoLineDFA"
     /\ machines[i].current_state \in ELine \cup VLine) =>
      TwoLineDFA_get_balance(machines[i])
        = Min(LinePrice(machines[i].current_state),
              Inserted(TwoLineSinceDispense(machines[i].history)))

\* C22: two-line engine: a money symbol applied on a line leads to the state
\* of the same line whose balance is the smaller of the line price and the
\* old balance plus the amount; a money symbol applied at S0 leaves S0.
C22_MoneyStaysOnLine ==
  \A i \in Instances :
    (/\ machines[i].cls = "TwoLineDFA" /\ Transitioned(i)
     /\ last[i].symbol \in MoneySymbols) =>
      /\ last[i].old \in ELine =>
           /\ last[i].new \in ELine
           /\ TwoLineDFA_STATE_INFO[last[i].new]
                = Min(EyeDropPrice, TwoLineDFA_STATE_INFO[last[i].old] + Amount(last[i].symbol))
      /\ last[i].old \in VLine =>
           /\ last[i].new \in VLine
           /\ TwoLineDFA_STATE_INFO[last[i].new]
                = Min(VitaminPrice, TwoLineDFA_STATE_INFO[last[i].old] + Amount(last[i].symbol))
      /\ last[i].old = "S0" =>
           /\ last[i].new = "S0"
           /\ machines[i].current_state = "S0"

\* RM10 applied at S0 stayed at S0, and after select_v and two RM20 a third
\* RM20 applied at V9 is capped at V10
C22_Witness ==
  \E i \in Instances :
    /\ machines[i].cls = "TwoLineDFA" /\ Transitioned(i)
    /\ Symbols(machines[i].history) = <<"RM10", "select_v", "RM20", "RM20", "RM20">>
    /\ machines[i].history[1] = <<"S0", "RM10", "S0">>
    /\ last[i].old = "V9" /\ last[i].new = "V10"

\* C23: with two instances, of the same engine or of different engines, a
\* transition or reset on one instance leaves the current position and the
\* history of the other instance unchanged, in every interleaving of calls.
C23_CallsTouchOneInstance ==
  [][\A i \in Instances :
       (machines'[i] # machines[i] \/ last'[i] # last[i]) =>
         \A j \in Instances \ {i} :
           /\ Position(machines'[j]) = Position(machines[j])
           /\ machines'[j].history = machines[j].history]_vars

\* two NFASimulator instances after interleaved calls: the first holds
\* {Q8, EYE_READY} after two RM20, the second holds {Q1} after one RM5
C23_Witness ==
  /\ machines[1].cls = "NFASimulator" /\ machines[2].cls = "NFASimulator"
  /\ Symbols(machines[1].history) = <<"RM20", "RM20">>
  /\ Symbols(machines[2].history) = <<"RM5">>
  /\ machines[1].current_states = {"Q8", "EYE_READY"}
  /\ machines[2].current_states = {"Q1"}
  /\ machines[1].history[2][1] = {"Q4"}

\* C24: the tables of the two deterministic engines are total and closed:
\* every declared state has a DELTA row with an entry for every symbol of
\* the declared alphabet (5 resp. 7 symbols) and every entry is a declared
\* state; the current state of an instance is a declared state.
C24_TablesTotalAndClosed ==
  /\ Cardinality(OriginalDFA_SIGMA) = 5 /\ Cardinality(TwoLineDFA_SIGMA) = 7
  /\ \A q \in OriginalDFA_STATES, a \in OriginalDFA_SIGMA :
       /\ q \in DOMAIN OriginalDFA_DELTA
       /\ a \in DOMAIN OriginalDFA_DELTA[q]
       /\ OriginalDFA_DELTA[q][a] \in OriginalDFA_STATES
  /\ \A q \in TwoLineDFA_STATES, a \in TwoLineDFA_SIGMA :
       /\ q \in DOMAIN TwoLineDFA_DELTA
       /\ a \in DOMAIN TwoLineDFA_DELTA[q]
       /\ TwoLineDFA_DELTA[q][a] \in TwoLineDFA_STATES
  /\ \A i \in Instances :
       /\ machines[i].cls = "OriginalDFA" => machines[i].current_state \in OriginalDFA_STATES
       /\ machines[i].cls = "TwoLineDFA" => machines[i].current_state \in TwoLineDFA_STATES

\* a two-line instance has walked the vitamin line to its last state, V10
C24_Witness ==
  \E i \in Instances :
    /\ machines[i].cls = "TwoLineDFA" /\ Transitioned(i)
    /\ last[i].old = "V6" /\ last[i].symbol = "RM20"
    /\ machines[i].current_state = "V10"

\* C25: on every epsilon relation, cycles and self-loops included, and for
\* every seed set, the worklist loop of _epsilon_closure pushes each state
\* at most once after the seed, and the run reaches its return.
C25_ClosureTerminates ==
  /\ [](\A j, k \in 1..Len(wl_pushed) : wl_pushed[j] = wl_pushed[k] => j = k)
  /\ <>(wl_pc = "done")

\* a run returned on a table with a cycle: A and B have epsilon edges to
\* each other, the seed was {A}, and B was pushed once
C25_Witness ==
  /\ wl_pc = "done"
  /\ wl_seed = {"A"}
  /\ "B" \in wl_eps["A"] /\ "A" \in wl_eps["B"]
  /\ wl_pushed = <<"B">>
  /\ wl_popped = <<"A", "B">>

\* C26: in every engine, a transition that reports 'Eye Drop' left a
\* position of balance at least 35, a transition that reports 'Vitamin'
\* left a position of balance 50, and after a dispense the balance is 0.
C26_NeverDispensedBelowPrice ==
  \A i \in Instances :
    (machines[i].cls \in Engines /\ Transitioned(i)) =>
      /\ last[i].dispensed = "Eye Drop" =>
           BalanceAt(machines[i].cls, last[i].old) >= EyeDropPrice
      /\ last[i].dispensed = "Vitamin" =>
           BalanceAt(machines[i].cls, last[i].old) = VitaminPrice
      /\ last[i].dispensed # None =>
           BalanceAt(machines[i].cls, Position(machines[i])) = 0

\* C27: in every engine, a transition with the eye-drop product symbol
\* ('e', 'dispense_e' on the NFA) reports 'Eye Drop' exactly when
\* can_buy_eye_drop() held immediately before the call, and a transition
\* with the vitamin product symbol ('v', 'dispense_v') reports 'Vitamin'
\* exactly when can_buy_vitamin() held immediately before the call.
C27_GatingAgreesWithTransition ==
  \A i \in Instances :
    (machines[i].cls \in Engines /\ Transitioned(i)) =>
      /\ last[i].symbol = EyeSymbol(machines[i].cls) =>
           (last[i].dispensed = "Eye Drop" <=> CanBuyEyeDrop(Before(i)))
      /\ last[i].symbol = VitSymbol(machines[i].cls) =>
           (last[i].dispensed = "Vitamin" <=> CanBuyVitamin(Before(i)))

\* the vitamin line at balance 35 was asked for the eye drop: nothing is
\* dispensed and can_buy_eye_drop() was false before the call
C27_Witness ==
  \E i \in Instances :
    /\ machines[i].cls = "TwoLineDFA" /\ Transitioned(i)
    /\ last[i].old = "V7" /\ last[i].symbol = "e"
    /\ last[i].dispensed = None
    /\ ~TwoLineDFA_can_buy_eye_drop(Before(i))

\* C28: the NFA simulates the single-path DFA: with e and v mapped to
\* dispense_e and dispense_v, after the same transition and reset calls on
\* both from construction, each call reported the same product, the NFA's
\* current set holds exactly one money state, the DFA's current state, and
\* get_balance(), is_accepting(), can_buy_eye_drop() and can_buy_vitamin()
\* return the same values on both.
C28_NFASimulatesSinglePath ==
  (machines[2].cls = "NFASimulator" /\ ~Behind) =>
    /\ last[1].op = last[2].op
    /\ last[1].op = "transition" =>
         /\ last[2].symbol = NFASymbol(last[1].symbol)
         /\ last[2].dispensed = last[1].dispensed
    /\ machines[2].current_states \cap NFA_MoneyStates = {machines[1].current_state}
    /\ NFASimulator_get_balance(machines[2]) = OriginalDFA_get_balance(machines[1])
    /\ NFASimulator_is_accepting(machines[2]) = OriginalDFA_is_accepting(machines[1])
    /\ NFASimulator_can_buy_eye_drop(machines[2]) = OriginalDFA_can_buy_eye_drop(machines[1])
    /\ NFASimulator_can_buy_vitamin(machines[2]) = OriginalDFA_can_buy_vitamin(machines[1])

\* both engines received RM20, RM20, RM20 and the vitamin request, and
\* both reported 'Vitamin'
C28_Witness ==
  /\ machines[2].cls = "NFASimulator" /\ ~Behind
  /\ Symbols(machines[1].history) = <<"RM20", "RM20", "RM20", "v">>
  /\ Symbols(machines[2].history) = <<"RM20", "RM20", "RM20", "dispense_v">>
  /\ last[1].dispensed = "Vitamin" /\ last[2].dispensed = "Vitamin"
  /\ machines[2].history[4][1] = {"Q10", "EYE_READY", "VIT_READY"}

\* C29: the web session and the desktop OriginalDFA are the same automaton:
\* after the same transition and reset calls on both from the initial
\* state, the current state, the product the latest call reported,
\* get_balance(), is_accepting() and can_buy_vitamin() are equal, and the
\* logs have the same length and equal (before, symbol, after) components.
C29_WebSessionIsSinglePath ==
  (machines[2].cls = "Streamlit" /\ ~Behind) =>
    /\ machines[2].current_state = machines[1].current_state
    /\ last[1].op = last[2].op
    /\ last[1].op = "transition" => last[2].dispensed = last[1].dispensed
    /\ Streamlit_get_balance(machines[2]) = OriginalDFA_get_balance(machines[1])
    /\ Streamlit_is_accepting(machines[2]) = OriginalDFA_is_accepting(machines[1])
    /\ Streamlit_can_buy_vitamin(machines[2]) = OriginalDFA_can_buy_vitamin(machines[1])
    /\ Len(machines[2].history) = Len(machines[1].history)
    /\ \A k \in 1..Len(machines[1].history) :
         SubSeq(machines[2].history[k], 1, 3) = machines[1].history[k]

\* both received RM20, RM20, v and e: the vitamin request at Q8 is a
\* self-loop on both, the eye-drop request dispenses on both
C29_Witness ==
  /\ machines[2].cls = "Streamlit" /\ ~Behind
  /\ Symbols(machines[1].history) = <<"RM20", "RM20", "v", "e">>
  /\ machines[2].history[3] = <<"Q8", "v", "Q8", None>>
  /\ machines[2].history[4] = <<"Q8", "e", "Q0", "Eye Drop">>
  /\ last[1].dispensed = "Eye Drop"

\* C30: non-deterministic engine: between calls the current set is not
\* empty, does not contain DISPENSE, and is one money state Qi together with
\* EYE_READY exactly when i >= 7 and VIT_READY exactly when i = 10; so
\* can_buy_eye_drop() holds exactly when get_balance() >= 35 and
\* can_buy_vitamin() exactly when get_balance() = 50.
C30_CurrentSetShape ==
  \A i \in Instances :
    machines[i].cls = "NFASimulator" =>
      LET states == machines[i].current_states IN
      /\ states # {}
      /\ "DISPENSE" \notin states
      /\ \E q \in NFA_MoneyStates :
           states = {q}
                    \cup (IF NFASimulator_STATE_INFO[q] >= EyeDropPrice THEN {"EYE_READY"} ELSE {})
                    \cup (IF NFASimulator_STATE_INFO[q] = VitaminPrice THEN {"VIT_READY"} ELSE {})
      /\ NFASimulator_can_buy_eye_drop(machines[i])
           <=> NFASimulator_get_balance(machines[i]) >= EyeDropPrice
      /\ NFASimulator_can_buy_vitamin(machines[i])
           <=> NFASimulator_get_balance(machines[i]) = VitaminPrice

\* C31: non-deterministic engine: with EYE_READY held and VIT_READY not
\* held, transition(dispense_v) leaves the current set unchanged, reports
\* no product and does not reset; with neither ready state held, either
\* dispense request leaves the current set unchanged and reports no product.
C31_RefusedRequestKeepsSet ==
  \A i \in Instances :
    (machines[i].cls = "NFASimulator" /\ Transitioned(i)) =>
      LET r == last[i]
          refused ==
            \/ /\ "EYE_READY" \in r.old /\ "VIT_READY" \notin r.old
               /\ r.symbol = "dispense_v"
            \/ /\ "EYE_READY" \notin r.old /\ "VIT_READY" \notin r.old
               /\ r.symbol \in {"dispense_e", "dispense_v"}
      IN refused =>
           /\ r.new = r.old
           /\ machines[i].current_states = r.old
           /\ r.dispensed = None

\* the vitamin was requested at {Q8, EYE_READY}: the set is kept
C31_Witness ==
  \E i \in Instances :
    /\ machines[i].cls = "NFASimulator" /\ Transitioned(i)
    /\ last[i].old = {"Q8", "EYE_READY"}
    /\ last[i].symbol = "dispense_v"
    /\ machines[i].current_states = {"Q8", "EYE_READY"}
    /\ last[i].dispensed = None

\* C32: non-deterministic engine: a transition that reaches DISPENSE resets
\* the position only: the log keeps its entries and grows by one entry whose
\* after component is the epsilon closure of {Q0}, and the call reports
\* 'Eye Drop' or 'Vitamin'; a transition that reports no product has not
\* been force-reset: its after set is the set it moved to.
C32_AutoResetKeepsLog ==
  [][\A i \in Instances :
       (/\ machines[i].cls = "NFASimulator"
        /\ machines'[i] # machines[i]
        /\ last'[i].op = "transition") =>
         LET before == machines[i].current_states
             symbol == last'[i].symbol
             offered == Offered(before, symbol)
             reached == IF offered = {} THEN before ELSE LeastClosed(offered)
         IN /\ "DISPENSE" \in reached =>
                 /\ last'[i].dispensed \in {"Eye Drop", "Vitamin"}
                 /\ machines'[i].current_states = LeastClosed({"Q0"})
                 /\ machines'[i].history =
                      Append(machines[i].history, <<before, symbol, LeastClosed({"Q0"})>>)
            /\ "DISPENSE" \notin reached =>
                 /\ last'[i].dispensed = None
                 /\ machines'[i].current_states = reached]_vars

\* the vitamin was dispensed by the fourth call: the log holds four entries
\* and the last one ends at {Q0}
C32_Witness ==
  \E i \in Instances :
    /\ machines[i].cls = "NFASimulator" /\ Transitioned(i)
    /\ last[i].dispensed = "Vitamin"
    /\ Len(machines[i].history) = 4
    /\ machines[i].history[4] = <<{"Q10", "EYE_READY", "VIT_READY"}, "dispense_v", {"Q0"}>>
    /\ machines[i].history[1][2] = "RM20"

\* C33: in every engine the log is a connected path from the initial
\* position to the current one: with an empty log the current position is
\* the initial one; otherwise the first entry starts at the initial position,
\* each entry ends where the next starts, and the last entry ends at the
\* current position.
C33_LogIsConnectedPath ==
  \A i \in Constructed :
    LET h == machines[i].history
        current == Position(machines[i])
    IN /\ h = <<>> => current = InitialPosition(machines[i].cls)
       /\ h # <<>> =>
            /\ h[1][1] = InitialPosition(machines[i].cls)
            /\ \A k \in 1..(Len(h) - 1) : h[k][3] = h[k + 1][1]
            /\ h[Len(h)][3] = current

\* a web log that passes a dispense, Q0 Q4 Q8 Q0 Q1, the current state
\* being Q1
C33_Witness ==
  \E i \in Constructed :
    /\ machines[i].cls = "Streamlit"
    /\ Symbols(machines[i].history) = <<"RM20", "RM20", "e", "RM5">>
    /\ machines[i].history[3][3] = "Q0"
    /\ machines[i].current_state = "Q1"

\* C34: single-path engine: a money symbol never lowers the balance; after
\* ten money symbols in a row, from whatever state, the state is Q10, where
\* a further money symbol is a self-loop; the balance goes down only by a
\* dispensing transition or by reset.
C34_MoneyRunsReachQ10 ==
  run.cls # None =>
    LET balance == OriginalDFA_STATE_INFO[run.current_state]
        before == IF run.op = "start" THEN balance ELSE OriginalDFA_STATE_INFO[run.old]
    IN /\ (run.op = "transition" /\ run.symbol \in MoneySymbols) => balance >= before
       /\ run.money >= 10 => run.current_state = "Q10"
       /\ (run.op = "transition" /\ run.symbol \in MoneySymbols /\ run.old = "Q10") =>
            run.current_state = "Q10"
       /\ balance < before =>
            \/ run.op = "reset"
            \/ run.op = "transition" /\ run.dispensed \in {"Eye Drop", "Vitamin"}

\* the tenth money symbol in a row was an RM5 applied at Q9: the walk
\* started at Q0 and every one of the ten was an RM5
C34_Witness ==
  /\ run.cls = "OriginalDFA"
  /\ run.money = 10
  /\ run.old = "Q9" /\ run.symbol = "RM5"
  /\ run.current_state = "Q10"

\* C35: web page: the Eye Drop button can be pressed exactly when
\* is_accepting() holds and the Vitamin button exactly when
\* can_buy_vitamin() holds; every press the page allows of a product button
\* dispenses that product and returns the state to Q0, none is a no-op.
C35_EnabledButtonDispenses ==
  \A i \in Instances :
    machines[i].cls = "Streamlit" =>
      /\ ~Web_eye_disabled(machines[i])
           <=> machines[i].current_state \in {"Q7", "Q8", "Q9", "Q10"}
      /\ ~Web_vit_disabled(machines[i]) <=> machines[i].current_state = "Q10"
      /\ (Transitioned(i) /\ last[i].symbol = "e") =>
           /\ last[i].dispensed = "Eye Drop"
           /\ last[i].new = "Q0" /\ machines[i].current_state = "Q0"
           /\ last[i].new # last[i].old
      /\ (Transitioned(i) /\ last[i].symbol = "v") =>
           /\ last[i].dispensed = "Vitamin"
           /\ last[i].new = "Q0" /\ machines[i].current_state = "Q0"
           /\ last[i].new # last[i].old

\* the Vitamin button was pressed at Q10 after RM20, RM20, RM10
C35_Witness ==
  \E i \in Instances :
    /\ machines[i].cls = "Streamlit" /\ Transitioned(i)
    /\ Symbols(machines[i].history) = <<"RM20", "RM20", "RM10", "v">>
    /\ machines[i].history[4] = <<"Q10", "v", "Q0", "Vitamin">>

====
